---------------------------- MODULE Spec2Model ----------------------------
(***************************************************************************)
(* Visuomind: the data analysis engine (DataProcessor), the chart          *)
(* recommendation engine (getRecommendations), the chart validity rules    *)
(* (validateChart, suggestSmartConfig), the exploration view               *)
(* (ManualExplorer) that drives them, the charts the views hand to         *)
(* ChartRenderer, the file reading of FileUpload and the state of the      *)
(* Dashboard with its saves to Firestore.                                  *)
(*                                                                         *)
(* JavaScript values are modelled as records [k, v]:                       *)
(*   k = "null" / "undef" / "empty"  null, undefined, ''                   *)
(*   k = "num"      the number v                                           *)
(*   k = "numstr"   the canonical decimal string of v ("5")                *)
(*   k = "fmtnum"   a formatted numeric string of v ("$5"), no date        *)
(*   k = "datestr"  a delimited string Date.parse reads as timestamp v and *)
(*                  whose cleaned form is not a number                     *)
(*   k = "str"      any other string, v its identity                       *)
(*   k = "date"     a Date object with timestamp v                         *)
(*   k = "timestamp" the Firestore Timestamp a stored Date comes back as   *)
(*   k = "tenths"   the number v / 10, as the double its literal gives     *)
(*   k = "quotient" / "nan"  an aggregated number v[1] / v[2], and NaN     *)
(* Strings that name columns are sequences of one-character strings, so    *)
(* that formatLabel is computed character by character.                    *)
(* Numbers that need not be integers are kept exactly: a mean, median or   *)
(* variance as a quotient, a correlation as numerator / sqrt(xDenom *      *)
(* yDenom), a recommendation score as base + coef * |correlation|. Where   *)
(* the rounding of the arithmetic matters (calculateCorrelation on numbers *)
(* with decimals) the numbers are IEEE 754 doubles, rounded step by step.  *)
(***************************************************************************)
EXTENDS Integers, Sequences, FiniteSets, TLC

\* ------------------------------------------------------------------ bounds
\* Largest dataset drawn for the validator and the exploration view.
MaxRows == 22
\* Largest dataset drawn for the recommendation engine.
MaxRecRows == 4
\* Rows of the datasets given to processData as a step.
MaxProcessRows == 12
\* Rows drawn beyond the sample of the type inference.
MaxTailRows == 2
MaxCorrRows == 3
MaxAggRows == 4
MaxSampleRows == 4

\* ------------------------------------------------------- program constants
SampleSize == 500
CategoryMaxUnique == 20
CategoryRatioMaxUnique == 50
TopSize == 10
PieMaxSlices == 6
BarMaxCategories == 20
RecMaxCategories == 50
RecPieMaxSlices == 6
RecTopN == 4

\* --------------------------------------------------------------- JS values
Null == [k |-> "null", v |-> 0]
Undefined == [k |-> "undef", v |-> 0]
EmptyStr == [k |-> "empty", v |-> 0]
Num(n) == [k |-> "num", v |-> n]
\* The number n / 10, as its decimal literal gives it.
Tenths(n) == [k |-> "tenths", v |-> n]
NumStr(n) == [k |-> "numstr", v |-> n]
FmtNum(n) == [k |-> "fmtnum", v |-> n]
DateStr(t) == [k |-> "datestr", v |-> t]
Str(i) == [k |-> "str", v |-> i]
DateObj(t) == [k |-> "date", v |-> t]

\* val === null || val === undefined
IsNullish(val) == val.k \in {"null", "undef"}

Min2(a, b) == IF a <= b THEN a ELSE b

\* Array.prototype.map
SeqMap(f(_), s) == [i \in 1..Len(s) |-> f(s[i])]

\* Array.prototype.slice(0, n)
Take(s, n) == SubSeq(s, 1, Min2(n, Len(s)))

\* The elements of s, as a set.
Range(s) == {s[i] : i \in 1..Len(s)}

\* The elements of s at the positions in idx, in their order in s.
AtPositions(s, idx) ==
    LET rank == [i \in idx |-> Cardinality({j \in idx : j < i}) + 1]
    IN [k \in 1..Cardinality(idx) |-> s[CHOOSE i \in idx : rank[i] = k]]

\* Array.prototype.sort with a comparator: stable, x comes before e when the
\* comparator is negative (Before(x, e)), and equal elements keep their order.
StableSort(Before(_, _), s) ==
    LET Precedes(j, i) == Before(s[j], s[i]) \/ (j < i /\ ~Before(s[i], s[j]))
        pos == [i \in 1..Len(s) |->
                  Cardinality({j \in 1..Len(s) : j # i /\ Precedes(j, i)}) + 1]
                \o <<>>
    IN [k \in 1..Len(s) |-> s[CHOOSE i \in 1..Len(s) : pos[i] = k]]

RECURSIVE SumSeq(_)
SumSeq(s) == IF s = <<>> THEN 0 ELSE Head(s) + SumSeq(Tail(s))

\* The sum of a column of any length: reduce((a, b) => a + b, 0) taken over
\* one run of 64 values after the other, which keeps the recursion shallow
\* on the columns of a thousand rows.
RECURSIVE SumColumn(_)
SumColumn(s) ==
    IF Len(s) <= 64 THEN SumSeq(s)
    ELSE SumSeq(SubSeq(s, 1, 64)) + SumColumn(SubSeq(s, 65, Len(s)))

\* row[key] on a row object, kept as the sequence of its <<key, value>>
\* entries in insertion order (Object.keys order).
RowGet(row, key) ==
    IF \E i \in 1..Len(row) : row[i].key = key
    THEN row[CHOOSE i \in 1..Len(row) : row[i].key = key].val
    ELSE Undefined

RowKeys(row) == [i \in 1..Len(row) |-> row[i].key]

\* ------------------------------------------------------------ DataProcessor
\* isNumeric: a number, or a string whose cleaned form parseFloat reads.
IsNumeric(val) == val.k \in {"num", "numstr", "fmtnum"}

\* isDate: a Date object, or a delimited string Date.parse reads.
IsDate(val) == val.k \in {"date", "datestr"}

\* val === null || val === undefined || val === ''
IsBlank(val) == val.k \in {"null", "undef", "empty"}

ToUpper(c) == CASE c = "a" -> "A" [] c = "b" -> "B" [] OTHER -> c
IsUpper(c) == c \in {"A", "B"}

RECURSIVE TrimLeft(_)
TrimLeft(s) == IF s # <<>> /\ Head(s) = " " THEN TrimLeft(Tail(s)) ELSE s
RECURSIVE TrimRight(_)
TrimRight(s) ==
    IF s # <<>> /\ s[Len(s)] = " " THEN TrimRight(SubSeq(s, 1, Len(s) - 1)) ELSE s

RECURSIVE SplitCamel(_)
SplitCamel(s) ==
    IF s = <<>> THEN <<>>
    ELSE (IF IsUpper(Head(s)) THEN <<" ", Head(s)>> ELSE <<Head(s)>>)
         \o SplitCamel(Tail(s))

\* formatLabel: "_" -> " ", a space before every capital, first character
\* upper-cased, trimmed.
formatLabel(key) ==
    LET under == [i \in 1..Len(key) |-> IF key[i] = "_" THEN " " ELSE key[i]]
        camel == SplitCamel(under)
        first == IF camel = <<>> THEN <<>>
                 ELSE <<ToUpper(Head(camel))>> \o Tail(camel)
    IN TrimRight(TrimLeft(first))

\* Variant of the sample that takes every row.
SampledValidAllRows(data, key) ==
    LET col == [i \in 1..Len(data) |-> RowGet(data[i], key)]
    IN SelectSeq(col, LAMBDA v : ~IsBlank(v))

\* The column data[0..sampleSize-1][key], blanks skipped.
SampledValid(data, key) ==
    LET sampleSize == Min2(Len(data), SampleSize)
        col == [i \in 1..sampleSize |-> RowGet(data[i], key)]
    IN SelectSeq(col, LAMBDA v : ~IsBlank(v))

InferType(numericCount, dateCount, validCount, uniqueSize) ==
    IF validCount = 0 THEN "text"
    ELSE IF 10 * numericCount > 8 * validCount THEN "number"
    ELSE IF 10 * dateCount > 8 * validCount THEN "date"
    ELSE IF uniqueSize <= CategoryMaxUnique
            \/ (10 * uniqueSize < 2 * validCount
                /\ uniqueSize < CategoryRatioMaxUnique) THEN "category"
    ELSE "text"

analyzeColumnType(data, key) ==
    LET valid == SampledValid(data, key)
        validCount == Len(valid)
        numericCount == Len(SelectSeq(valid, IsNumeric))
        dateCount == Len(SelectSeq(valid, IsDate))
        uniqueValues == Range(valid)
    IN [key |-> key,
        type |-> InferType(numericCount, dateCount, validCount,
                           Cardinality(uniqueValues)),
        label |-> formatLabel(key)]

\* Variant of parseValue that hands a blank cell back as it came.
parseValueKeepsBlank(val, type) ==
    IF IsBlank(val) THEN val
    ELSE IF type = "number" THEN
        (IF IsNumeric(val) THEN Num(val.v) ELSE Null)
    ELSE IF type = "date" THEN
        (IF val.k \in {"datestr", "date", "num", "numstr"} THEN DateObj(val.v) ELSE Null)
    ELSE val

\* parseValue. A Date the platform builds from a digit string is kept with
\* the string's number as its timestamp.
parseValue(val, type) ==
    IF IsBlank(val) THEN Null
    ELSE IF type = "number" THEN
        (IF IsNumeric(val) THEN Num(val.v) ELSE Null)
    ELSE IF type = "date" THEN
        (IF val.k \in {"datestr", "date", "num", "numstr"} THEN DateObj(val.v) ELSE Null)
    ELSE val

\* A quotient of two integers (a JS number that need not be an integer).
Frac(n, d) == [num |-> n, den |-> d]
FracLeq(a, b) == a.num * b.den <= b.num * a.den
FracLess(a, b) == a.num * b.den < b.num * a.den

\* String(v): the property name an object keeps for the value v.
KeyOf(val) == IF val.k = "num" THEN NumStr(val.v) ELSE val

\* Array-index property names, which Object.entries lists first, ascending.
IsIndexKey(key) == key.k = "numstr" /\ key.v >= 0

\* The distinct elements of s in first-seen order.
Dedup(s) ==
    AtPositions(s, {i \in 1..Len(s) : \A j \in 1..(i - 1) : s[j] # s[i]})

\* Object.entries(counts): [key, count] in property order.
CountEntries(validValues) ==
    LET keys == SeqMap(KeyOf, validValues)
        seen == Dedup(keys)
        index == StableSort(LAMBDA a, b : a.v < b.v, SelectSeq(seen, IsIndexKey))
        named == SelectSeq(seen, LAMBDA key : ~IsIndexKey(key))
        order == index \o named
    IN [i \in 1..Len(order) |->
          [val |-> order[i],
           count |-> Len(SelectSeq(keys, LAMBDA key : key = order[i]))]]

\* Variant of the number statistics with the sample variance (over n - 1).
NumberStatsSampleVariance(validValues, nullCount) ==
    LET xs == [i \in 1..Len(validValues) |-> validValues[i].v]
        n == Len(xs)
        sum == SumColumn(xs)
        sumSq == SumColumn([i \in 1..n |-> xs[i] * xs[i]])
        sorted == StableSort(LAMBDA a, b : a < b, xs)
        mid == n \div 2
        median == IF n % 2 # 0 THEN Frac(sorted[mid + 1], 1)
                  ELSE Frac(sorted[mid] + sorted[mid + 1], 2)
        variance == IF n = 1 THEN Frac(0, 1)
                    ELSE Frac(n * sumSq - sum * sum, n * (n - 1))
    IN [min |-> Num(sorted[1]), max |-> Num(sorted[n]), mean |-> Frac(sum, n),
        median |-> median, sum |-> sum,
        stdDev |-> [sqrtOf |-> variance], variance |-> variance,
        nullCount |-> nullCount]

NumberStats(validValues, nullCount) ==
    LET xs == [i \in 1..Len(validValues) |-> validValues[i].v]
        n == Len(xs)
        sum == SumColumn(xs)
        sumSq == SumColumn([i \in 1..n |-> xs[i] * xs[i]])
        sorted == StableSort(LAMBDA a, b : a < b, xs)
        mid == n \div 2
        median == IF n % 2 # 0 THEN Frac(sorted[mid + 1], 1)
                  ELSE Frac(sorted[mid] + sorted[mid + 1], 2)
        variance == Frac(n * sumSq - sum * sum, n * n)
    IN [min |-> Num(sorted[1]), max |-> Num(sorted[n]), mean |-> Frac(sum, n),
        median |-> median, sum |-> sum,
        stdDev |-> [sqrtOf |-> variance], variance |-> variance,
        nullCount |-> nullCount]

CategoryStats(validValues, nullCount) ==
    LET sorted == StableSort(LAMBDA a, b : b.count < a.count,
                             CountEntries(validValues))
    IN [uniqueCount |-> Len(sorted), top |-> Take(sorted, TopSize),
        nullCount |-> nullCount]

DateStats(validValues, nullCount) ==
    LET timestamps == {validValues[i].v : i \in 1..Len(validValues)}
    IN [min |-> DateObj(CHOOSE t \in timestamps : \A u \in timestamps : t <= u),
        max |-> DateObj(CHOOSE t \in timestamps : \A u \in timestamps : t >= u),
        nullCount |-> nullCount]

calculateStats(values, type) ==
    LET validValues == SelectSeq(values, LAMBDA v : ~IsNullish(v))
        nullCount == Len(values) - Len(validValues)
    IN IF Len(validValues) = 0 THEN [nullCount |-> nullCount]
       ELSE IF type = "number" THEN NumberStats(validValues, nullCount)
       ELSE IF type \in {"category", "text"} THEN CategoryStats(validValues, nullCount)
       ELSE IF type = "date" THEN DateStats(validValues, nullCount)
       ELSE [nullCount |-> nullCount]

\* A column of the analysis result: { ...meta, stats }.
Column(meta, stats) ==
    [key |-> meta.key, type |-> meta.type, label |-> meta.label, stats |-> stats]

\* An array of rows, as a value that may also be null or undefined.
Array(rows) == [k |-> "array", v |-> rows]

\* NoAnalysis stands for the null processData returns.
NoAnalysis == [data |-> <<>>, columns |-> <<>>, rowCount |-> 0, isNull |-> TRUE]

\* Variant of the test that also takes a single row for nothing.
IsNothingToAnalyzeBelowTwo(rawData) == IsNullish(rawData) \/ Len(rawData.v) <= 1

\* !rawData || rawData.length === 0
IsNothingToAnalyze(rawData) == IsNullish(rawData) \/ Len(rawData.v) = 0

processData(rawData) ==
    IF IsNothingToAnalyze(rawData) THEN NoAnalysis
    ELSE
    LET rows == rawData.v
        rawKeys == RowKeys(rows[1])
        columnMetadata == [c \in 1..Len(rawKeys) |-> analyzeColumnType(rows, rawKeys[c])]
        cleanData == [r \in 1..Len(rows) |->
                        [c \in 1..Len(columnMetadata) |->
                           [key |-> columnMetadata[c].key,
                            val |-> parseValue(RowGet(rows[r], columnMetadata[c].key),
                                               columnMetadata[c].type)]]]
        columns == [c \in 1..Len(columnMetadata) |->
                      Column(columnMetadata[c],
                             calculateStats([r \in 1..Len(cleanData) |->
                                               RowGet(cleanData[r], columnMetadata[c].key)],
                                            columnMetadata[c].type))]
    IN [data |-> cleanData, columns |-> columns, rowCount |-> Len(rows),
        isNull |-> FALSE]

\* ----------------------------------------------------------- ChartValidator
\* What columns.find returns when no column has the key (undefined).
NoColumn == [key |-> <<>>, type |-> "undefined", label |-> <<>>,
             stats |-> [nullCount |-> 0]]
IsPresent(col) == col.type # "undefined"

\* xCol.stats.uniqueCount || 0
UniqueX(xCol) ==
    IF "uniqueCount" \in DOMAIN xCol.stats THEN xCol.stats.uniqueCount ELSE 0

\* yCol.stats.min < 0: false for an absent min, a Date compares by timestamp.
HasNegatives(yCol) ==
    IF "min" \in DOMAIN yCol.stats THEN yCol.stats.min.v < 0 ELSE FALSE

ChartTypes == {"bar", "line", "pie", "doughnut", "scatter", "bubble"}

\* if (!xCol || !yCol) return ...
MissingAxesResult ==
    [valid |-> FALSE, severity |-> "BLOCK", reason |-> <<"Select axes first">>]

\* Variant of the numeric pair rule that lets a line chart through.
NumericPairLenient(type) ==
    IF type \notin {"scatter", "line"}
    THEN [valid |-> FALSE, severity |-> "AUTO_FIX",
          reason |-> <<"Both axes are numeric. Switching to Scatter Plot.">>,
          suggestedType |-> "scatter"]
    ELSE [valid |-> TRUE]

\* Rule: Numeric vs Numeric MUST be Scatter.
NumericPairRule(type) ==
    IF type # "scatter"
    THEN [valid |-> FALSE, severity |-> "AUTO_FIX",
          reason |-> <<"Both axes are numeric. Switching to Scatter Plot.">>,
          suggestedType |-> "scatter"]
    ELSE [valid |-> TRUE]

\* Variant of the scatter rule that warns instead of blocking.
ScatterRuleWarns ==
    [valid |-> TRUE, severity |-> "WARN",
     reason |-> <<"Scatter plots require both axes to be numeric.">>]

\* Rule: Scatter MUST be Numeric vs Numeric.
ScatterRule ==
    [valid |-> FALSE, severity |-> "BLOCK",
     reason |-> <<"Scatter plots require both axes to be numeric.">>]

\* Variant of the pie rules that counts the slices before looking for
\* negative values.
PieRulesSlicesFirst(uniqueX, isXNumeric, hasNegatives) ==
    IF isXNumeric
    THEN [valid |-> FALSE, severity |-> "BLOCK",
          reason |-> <<"Pie charts require a categorical X-axis.">>]
    ELSE IF uniqueX > PieMaxSlices
    THEN [valid |-> FALSE, severity |-> "BLOCK",
          reason |-> <<"Too many slices (", ToString(uniqueX), " > 6).">>]
    ELSE IF hasNegatives
    THEN [valid |-> FALSE, severity |-> "BLOCK",
          reason |-> <<"Pie charts cannot display negative values.">>]
    ELSE [valid |-> TRUE]

\* Pie / doughnut rules.
PieRules(uniqueX, isXNumeric, hasNegatives) ==
    IF isXNumeric
    THEN [valid |-> FALSE, severity |-> "BLOCK",
          reason |-> <<"Pie charts require a categorical X-axis.">>]
    ELSE IF hasNegatives
    THEN [valid |-> FALSE, severity |-> "BLOCK",
          reason |-> <<"Pie charts cannot display negative values.">>]
    ELSE IF uniqueX > PieMaxSlices
    THEN [valid |-> FALSE, severity |-> "BLOCK",
          reason |-> <<"Too many slices (", ToString(uniqueX), " > 6).">>]
    ELSE [valid |-> TRUE]

\* Bar rules.
BarRules(uniqueX, isXNumeric) ==
    IF isXNumeric /\ uniqueX > BarMaxCategories
    THEN [valid |-> FALSE, severity |-> "AUTO_FIX",
          reason |-> <<"Continuous numeric X-axis. Switching to Scatter.">>,
          suggestedType |-> "scatter"]
    ELSE IF uniqueX > BarMaxCategories
    THEN [valid |-> TRUE, severity |-> "WARN",
          reason |-> <<"High cardinality (", ToString(uniqueX),
                       "). Will show Top 20 items.">>]
    ELSE [valid |-> TRUE]

\* Variant of the line rules that refuses without severity or reason.
LineRulesNoReason(xType, isXNumeric) ==
    IF xType # "date" /\ ~isXNumeric
    THEN [valid |-> FALSE]
    ELSE [valid |-> TRUE]

\* Line rules.
LineRules(xType, isXNumeric) ==
    IF xType # "date" /\ ~isXNumeric
    THEN [valid |-> FALSE, severity |-> "BLOCK",
          reason |-> <<"Line charts require Date or Numeric X-axis for trends.">>]
    ELSE [valid |-> TRUE]

validateChart(type, xCol, yCol) ==
    IF ~IsPresent(xCol) \/ ~IsPresent(yCol) THEN MissingAxesResult
    ELSE
    LET uniqueX == UniqueX(xCol)
        isXNumeric == xCol.type = "number"
        isYNumeric == yCol.type = "number"
        hasNegatives == HasNegatives(yCol)
    IN
    IF isXNumeric /\ isYNumeric THEN NumericPairRule(type)
    ELSE IF type = "scatter" /\ (~isXNumeric \/ ~isYNumeric) THEN ScatterRule
    ELSE IF type \in {"pie", "doughnut"}
    THEN PieRules(uniqueX, isXNumeric, hasNegatives)
    ELSE IF type = "bar" THEN BarRules(uniqueX, isXNumeric)
    ELSE IF type = "line" THEN LineRules(xCol.type, isXNumeric)
    ELSE [valid |-> TRUE]

\* suggestSmartConfig; NoSuggestion stands for its null, and aggregation
\* "null" for a null aggregation.
NoSuggestion == [type |-> "null", aggregation |-> "null"]

suggestSmartConfig(xCol, yCol) ==
    IF ~IsPresent(xCol) \/ ~IsPresent(yCol) THEN NoSuggestion
    ELSE IF xCol.type = "number" /\ yCol.type = "number"
    THEN [type |-> "scatter", aggregation |-> "null"]
    ELSE IF xCol.type = "date" /\ yCol.type = "number"
    THEN [type |-> "line", aggregation |-> "mean"]
    ELSE IF xCol.type # "number" /\ yCol.type = "number"
    THEN [type |-> "bar", aggregation |-> "mean"]
    ELSE NoSuggestion

\* -------------------------------------------------- calculateCorrelation
\* The number a typed cell is in arithmetic: null is 0.
ToNumber(val) == IF val.k = "num" THEN val.v ELSE 0

\* Products beyond the machine word are kept as <<high, low>> in base 10^4.
BigMul(p, a) ==
    LET low == p * (a % 10000)
    IN <<p * (a \div 10000) + (low \div 10000), low % 10000>>
BigLess(x, y) == x[1] < y[1] \/ (x[1] = y[1] /\ x[2] < y[2])
BigLeq(x, y) == ~BigLess(y, x)

\* calculateCorrelation. With n the length, the sums of the deviations from
\* the means are kept times n, where they are integers:
\*   numerator * n = n * Sum(x*y) - Sum(x) * Sum(y), and likewise xDenom, yDenom.
\* The result stands for numerator / sqrt(xDenom * yDenom); 0 is [0, 1, 1].
ZeroCorrelation == [numerator |-> 0, xDenom |-> 1, yDenom |-> 1]

calculateCorrelation(xValues, yValues) ==
    LET n == Len(xValues)
        xs == [i \in 1..n |-> ToNumber(xValues[i])]
    IN IF n # Len(yValues) \/ n = 0 THEN ZeroCorrelation
       ELSE
       LET ys == [i \in 1..n |-> ToNumber(yValues[i])]
           sx == SumColumn(xs)
           sy == SumColumn(ys)
           numerator == n * SumColumn([i \in 1..n |-> xs[i] * ys[i]]) - sx * sy
           xDenom == n * SumColumn([i \in 1..n |-> xs[i] * xs[i]]) - sx * sx
           yDenom == n * SumColumn([i \in 1..n |-> ys[i] * ys[i]]) - sy * sy
       IN IF xDenom * yDenom = 0 THEN ZeroCorrelation
          ELSE [numerator |-> numerator, xDenom |-> xDenom, yDenom |-> yDenom]

\* Math.abs(r) >= p / q, for 0 <= p <= q <= 100.
AbsAtLeast(r, p, q) ==
    BigLeq(BigMul(p * p, r.xDenom * r.yDenom), BigMul(q * q, r.numerator * r.numerator))

\* Math.abs(r) > p / q
AbsGreater(r, p, q) ==
    BigLess(BigMul(p * p, r.xDenom * r.yDenom), BigMul(q * q, r.numerator * r.numerator))

IsPositive(r) == r.numerator > 0

\* Math.abs(r) to two decimals, in hundredths (what toFixed(2) prints).
AbsHundredths(r) ==
    CHOOSE m \in 0..100 :
        /\ BigLeq(BigMul((2 * m - 1) * (2 * m - 1), r.xDenom * r.yDenom),
                  BigMul(40000, r.numerator * r.numerator)) \/ m = 0
        /\ BigLess(BigMul(40000, r.numerator * r.numerator),
                   BigMul((2 * m + 1) * (2 * m + 1), r.xDenom * r.yDenom)) \/ m = 100

\* ------------------------------------------------------------- scores
\* A score is the number base + coef * Math.abs(r), r a correlation: the
\* fixed scores have coef 0. Scores are compared exactly, in natural numbers
\* of any size kept as their base 2^12 digits, lowest first.
LimbBits == 12
Limb == 4096

BigLimb(a, i) == IF i >= 1 /\ i <= Len(a) THEN a[i] ELSE 0

\* a without its leading zero digits.
BigTrim(a) ==
    LET used == {i \in 1..Len(a) : a[i] # 0}
    IN IF used = {} THEN <<>>
       ELSE SubSeq(a, 1, CHOOSE i \in used : \A j \in used : j <= i)

BigNat(n) == BigTrim(<<n % Limb, (n \div Limb) % Limb, n \div (Limb * Limb)>>)

Max2(a, b) == IF a >= b THEN a ELSE b

BigAdd(a, b) ==
    LET len == Max2(Len(a), Len(b)) + 1
        carry[i \in 0..len] ==
            IF i = 0 THEN 0
            ELSE (BigLimb(a, i) + BigLimb(b, i) + carry[i - 1]) \div Limb
    IN BigTrim([i \in 1..len |->
                  (BigLimb(a, i) + BigLimb(b, i) + carry[i - 1]) % Limb])

\* -1, 0 or 1 as a is below, equal to or above b.
BigCompare(a, b) ==
    LET len == Max2(Len(a), Len(b))
        differ == {i \in 1..len : BigLimb(a, i) # BigLimb(b, i)}
    IN IF differ = {} THEN 0
       ELSE LET top == CHOOSE i \in differ : \A j \in differ : j <= i
            IN IF BigLimb(a, top) < BigLimb(b, top) THEN -1 ELSE 1

\* a - b, for a >= b.
BigSub(a, b) ==
    LET len == Max2(Len(a), Len(b))
        borrow[i \in 0..len] ==
            IF i = 0 THEN 0
            ELSE IF BigLimb(a, i) - BigLimb(b, i) - borrow[i - 1] < 0 THEN 1 ELSE 0
    IN BigTrim([i \in 1..len |->
                  (BigLimb(a, i) - BigLimb(b, i) - borrow[i - 1] + Limb) % Limb])

BigTimes(a, b) ==
    LET len == Len(a) + Len(b)
        column(k) == SumSeq([i \in 1..Len(a) |-> a[i] * BigLimb(b, k + 1 - i)])
        carry[k \in 0..len] ==
            IF k = 0 THEN 0 ELSE (column(k) + carry[k - 1]) \div Limb
    IN BigTrim([k \in 1..len |-> (column(k) + carry[k - 1]) % Limb])

BigSquare(a) == BigTimes(a, a)

FixedScore(base) == [base |-> base, coef |-> 0, r |-> ZeroCorrelation]
CorrelationScore(base, coef, r) == [base |-> base, coef |-> coef, r |-> r]

\* The number p / q as a score.
RationalScore(p, q) ==
    [base |-> 0, coef |-> p, r |-> [numerator |-> 1, xDenom |-> q, yDenom |-> q]]

\* s < t as numbers (what b.score - a.score decides in the sort). With
\* X = s.coef * |r_s|, Y = t.coef * |r_t| and k = t.base - s.base the test is
\* X < Y + k, settled by squaring twice; squares are kept times Ds * Dt, the
\* products of the denominators under the two roots.
ScoreLess(s, t) ==
    LET Magnitude(n) == BigNat(IF n < 0 THEN -n ELSE n)
        Ds == BigTimes(BigNat(s.r.xDenom), BigNat(s.r.yDenom))
        Dt == BigTimes(BigNat(t.r.xDenom), BigNat(t.r.yDenom))
        DD == BigTimes(Ds, Dt)
        X2 == BigTimes(BigSquare(BigTimes(BigNat(s.coef), Magnitude(s.r.numerator))), Dt)
        Y2 == BigTimes(BigSquare(BigTimes(BigNat(t.coef), Magnitude(t.r.numerator))), Ds)
        k == t.base - s.base
        K2 == BigTimes(BigSquare(Magnitude(k)), DD)
        four == BigNat(4)
    IN IF s.coef = 0 /\ t.coef = 0 THEN s.base < t.base
       ELSE IF k >= 0
       THEN \* X^2 - Y^2 - k^2 < 2kY
            IF BigCompare(X2, BigAdd(Y2, K2)) < 0 THEN TRUE
            ELSE LET T == BigSub(X2, BigAdd(Y2, K2))
                 IN BigCompare(BigSquare(T),
                               BigTimes(four, BigTimes(K2, Y2))) < 0
       ELSE \* 2|k|X < Y^2 - X^2 - k^2
            IF BigCompare(Y2, BigAdd(X2, K2)) <= 0 THEN FALSE
            ELSE LET T == BigSub(Y2, BigAdd(X2, K2))
                 IN BigCompare(BigTimes(four, BigTimes(K2, X2)),
                               BigSquare(T)) < 0

ScoreLeq(s, t) == ~ScoreLess(t, s)
ScoreEqual(s, t) == ~ScoreLess(s, t) /\ ~ScoreLess(t, s)

\* ---------------------------------------------------------- aggregateData
\* An aggregated value is kept as the quotient it is, in lowest terms: the sums
\* are of whole numbers and exact, and two means or medians of a few small
\* whole numbers are the same double only when they are the same quotient.
\* Frac(0, 0) stands for NaN; it is below, above and equal to nothing.
NotANumber == Frac(0, 0)
IsNaN(a) == a.den = 0

RECURSIVE Gcd(_, _)
Gcd(a, b) == IF b = 0 THEN a ELSE Gcd(b, a % b)

FracReduce(a) ==
    IF IsNaN(a) THEN NotANumber
    ELSE LET g == Gcd(IF a.num < 0 THEN -a.num ELSE a.num, a.den)
         IN Frac(a.num \div g, a.den \div g)

FracAdd(a, b) ==
    IF IsNaN(a) \/ IsNaN(b) THEN NotANumber
    ELSE FracReduce(Frac(a.num * b.den + b.num * a.den, a.den * b.den))

\* a / n for a whole n > 0.
FracOver(a, n) == IF IsNaN(a) THEN NotANumber ELSE FracReduce(Frac(a.num, a.den * n))

\* Number(val) for a val that is neither null nor undefined.
ToFrac(val) ==
    CASE val.k \in {"num", "numstr", "date"} -> Frac(val.v, 1)
      [] val.k = "empty" -> Frac(0, 1)
      [] OTHER -> NotANumber

\* The cell that holds the number a.
NumberCell(a) ==
    IF IsNaN(a) THEN [k |-> "nan", v |-> 0]
    ELSE IF a.den = 1 THEN Num(a.num)
    ELSE [k |-> "quotient", v |-> <<a.num, a.den>>]

\* The number in a cell of an aggregated row.
CellFrac(val) ==
    CASE val.k = "quotient" -> Frac(val.v[1], val.v[2])
      [] val.k = "num" -> Frac(val.v, 1)
      [] OTHER -> NotANumber

\* The property name groups[key] uses for a key.
GroupName(key) == IF key.k = "date" THEN DateStr(key.v) ELSE KeyOf(key)

\* The arrangements of s in every order.
Arrangements(s) ==
    LET n == Len(s)
    IN {[i \in 1..n |-> s[p[i]]] :
          p \in {q \in [1..n -> 1..n] : \A i, j \in 1..n : i # j => q[i] # q[j]}}

\* values.reduce((a, b) => a + b, 0)
RECURSIVE FracSum(_)
FracSum(values) ==
    IF values = <<>> THEN Frac(0, 1)
    ELSE FracAdd(FracSum(SubSeq(values, 1, Len(values) - 1)), values[Len(values)])

\* The middle of sorted values.
MiddleOf(sorted) ==
    LET mid == Len(sorted) \div 2
    IN IF Len(sorted) % 2 # 0 THEN sorted[mid + 1]
       ELSE FracOver(FracAdd(sorted[mid], sorted[mid + 1]), 2)

\* values.sort((a, b) => a - b): with a NaN among the values the comparator
\* is not consistent and the order is the implementation's to choose.
SortedValues(values) ==
    IF \E i \in 1..Len(values) : IsNaN(values[i]) THEN Arrangements(values)
    ELSE {StableSort(FracLess, values)}

\* The values a method can give for the numbers of a group.
GroupValues(method, values) ==
    CASE method = "count" -> {Frac(Len(values), 1)}
      [] method = "sum" -> {FracSum(values)}
      [] method = "mean" -> {FracOver(FracSum(values), Len(values))}
      [] method = "median" -> {MiddleOf(sorted) : sorted \in SortedValues(values)}
      [] OTHER -> {Frac(0, 1)}

\* { [groupByCol]: key, [metricCol]: value }
GroupEntry(groupByCol, metricCol, key, value) ==
    IF groupByCol = metricCol
    THEN << [key |-> metricCol, val |-> NumberCell(value)] >>
    ELSE << [key |-> groupByCol, val |-> key],
            [key |-> metricCol, val |-> NumberCell(value)] >>

\* Variant of the sort that puts the smallest value first.
SortedEntriesAscending(entries, metricCol) ==
    LET Value(e) == CellFrac(RowGet(e, metricCol))
    IN IF \E i \in 1..Len(entries) : IsNaN(Value(entries[i]))
       THEN Arrangements(entries)
       ELSE {StableSort(LAMBDA a, b : FracLess(Value(a), Value(b)), entries)}

\* result.sort((a, b) => b[metricCol] - a[metricCol]): stable, and left to the
\* implementation when a NaN makes the comparator inconsistent.
SortedEntries(entries, metricCol) ==
    LET Value(e) == CellFrac(RowGet(e, metricCol))
    IN IF \E i \in 1..Len(entries) : IsNaN(Value(entries[i]))
       THEN Arrangements(entries)
       ELSE {StableSort(LAMBDA a, b : FracLess(Value(b), Value(a)), entries)}

\* limit && limit > 0 && result.length > limit ? result.slice(0, limit) : result
ApplyLimit(result, limit) ==
    IF limit.k = "num" /\ limit.v > 0 /\ Len(result) > limit.v
    THEN Take(result, limit.v) ELSE result

\* The rows aggregateData keeps: neither the key nor the metric is nullish.
GroupedRows(data, groupByCol, metricCol) ==
    SelectSeq(data, LAMBDA row : ~IsNullish(RowGet(row, groupByCol))
                                 /\ ~IsNullish(RowGet(row, metricCol)))

\* Object.entries(groups): the names, array indices first.
GroupNames(rows, groupByCol) ==
    LET seen == Dedup(SeqMap(LAMBDA row : GroupName(RowGet(row, groupByCol)), rows))
    IN StableSort(LAMBDA a, b : a.v < b.v, SelectSeq(seen, IsIndexKey))
       \o SelectSeq(seen, LAMBDA key : ~IsIndexKey(key))

\* The results aggregateData can give before the limit is applied: every
\* choice of a value for each group, in every order the sort can leave.
AggregatedGroups(data, groupByCol, metricCol, method) ==
    LET rows == GroupedRows(data, groupByCol, metricCol)
        names == GroupNames(rows, groupByCol)
        valuesOf == [g \in 1..Len(names) |->
                       SeqMap(LAMBDA row : ToFrac(RowGet(row, metricCol)),
                              SelectSeq(rows, LAMBDA row :
                                  GroupName(RowGet(row, groupByCol)) = names[g]))]
        choices == IF \A g \in 1..Len(names) :
                         Cardinality(GroupValues(method, valuesOf[g])) = 1
                   THEN {[g \in 1..Len(names) |->
                            CHOOSE v \in GroupValues(method, valuesOf[g]) : TRUE]}
                   ELSE
                   {c \in [1..Len(names) -> UNION {GroupValues(method, valuesOf[g])
                                                    : g \in 1..Len(names)}] :
                       \A g \in 1..Len(names) : c[g] \in GroupValues(method, valuesOf[g])}
    IN UNION {SortedEntries([g \in 1..Len(names) |->
                                GroupEntry(groupByCol, metricCol, names[g], c[g])],
                            metricCol) : c \in choices}

\* aggregateData, as the set of the results it can give.
aggregateData(data, groupByCol, metricCol, method, limit) ==
    {ApplyLimit(result, limit) :
        result \in AggregatedGroups(data, groupByCol, metricCol, method)}

\* ---------------------------------------------------- double arithmetic
\* A JavaScript number as the IEEE 754 double it is: (-1)^neg * m * 2^e with
\* m a natural number below 2^53, odd unless the number is 0. Every operation
\* rounds its exact result to the nearest such number, ties to the even m.
\* Overflow, underflow and NaN are left out.
MantissaBits == 53

BigPow2(k) ==
    [i \in 1..((k \div LimbBits) + 1) |->
        IF i = (k \div LimbBits) + 1 THEN 2 ^ (k % LimbBits) ELSE 0]

BigShiftLeft(a, k) == BigTimes(a, BigPow2(k))

\* floor(a / 2^k)
BigShiftRight(a, k) ==
    LET whole == k \div LimbBits
        part == 2 ^ (k % LimbBits)
    IN BigTrim([i \in 1..(Len(a) - whole) |->
                  (a[i + whole] \div part)
                  + (BigLimb(a, i + whole + 1) % part) * (Limb \div part)])

\* The number of binary digits of a > 0.
BigBitLen(a) ==
    LimbBits * (Len(a) - 1)
    + (CHOOSE b \in 1..LimbBits : 2 ^ (b - 1) <= a[Len(a)] /\ a[Len(a)] < 2 ^ b)

\* The number of zero binary digits at the end of a > 0.
BigTrailingZeros(a) ==
    LET first == CHOOSE i \in 1..Len(a) : a[i] # 0 /\ \A j \in 1..(i - 1) : a[j] = 0
    IN LimbBits * (first - 1)
       + (CHOOSE b \in 0..(LimbBits - 1) :
             a[first] % (2 ^ b) = 0 /\ (a[first] \div (2 ^ b)) % 2 = 1)

BigIsOdd(a) == a # <<>> /\ a[1] % 2 = 1

\* The largest digit d with d * b <= r, for b > 0 and r below Limb * b: found
\* binary digit by binary digit, `have` holding the digits found and `bits`
\* counting those still to find.
RECURSIVE BigQuotientDigit(_, _, _, _)
BigQuotientDigit(b, r, have, bits) ==
    IF bits = 0 THEN have
    ELSE LET trial == have + 2 ^ (bits - 1)
         IN IF BigCompare(BigTimes(BigNat(trial), b), r) <= 0
            THEN BigQuotientDigit(b, r, trial, bits - 1)
            ELSE BigQuotientDigit(b, r, have, bits - 1)

\* Long division by b > 0 of the digits i and below of a, after the digits
\* above them gave the quotient digits q and left r.
RECURSIVE BigDivFrom(_, _, _, _, _)
BigDivFrom(a, b, i, q, r) ==
    IF i = 0 THEN [q |-> BigTrim(q), r |-> r]
    ELSE LET r2 == BigTrim(<<a[i]>> \o r)
             d == BigQuotientDigit(b, r2, 0, LimbBits)
         IN IF d = 0 THEN BigDivFrom(a, b, i - 1, <<0>> \o q, r2)
            ELSE BigDivFrom(a, b, i - 1, <<d>> \o q,
                            BigSub(r2, BigTimes(BigNat(d), b)))

\* floor(a / b) and a - b * floor(a / b) for b > 0.
BigDivMod(a, b) == BigDivFrom(a, b, Len(a), <<>>, <<>>)

\* root with d added as its digit i.
BigWithDigit(root, i, d) == BigAdd(root, [k \in 1..i |-> IF k = i THEN d ELSE 0])

\* The largest digit d with BigWithDigit(root, i, d)^2 <= a.
RECURSIVE BigRootDigit(_, _, _, _, _)
BigRootDigit(a, root, i, have, bits) ==
    IF bits = 0 THEN have
    ELSE LET trial == have + 2 ^ (bits - 1)
         IN IF BigCompare(BigSquare(BigWithDigit(root, i, trial)), a) <= 0
            THEN BigRootDigit(a, root, i, trial, bits - 1)
            ELSE BigRootDigit(a, root, i, have, bits - 1)

\* The digits i and below of floor(sqrt(a)) added to root, its digits above.
RECURSIVE BigSqrtFrom(_, _, _)
BigSqrtFrom(a, i, root) ==
    IF i = 0 THEN root
    ELSE LET d == BigRootDigit(a, root, i, 0, LimbBits)
         IN IF d = 0 THEN BigSqrtFrom(a, i - 1, root)
            ELSE BigSqrtFrom(a, i - 1, BigTrim(BigWithDigit(root, i, d)))

\* floor(sqrt(a))
BigSqrt(a) == BigSqrtFrom(a, (Len(a) + 1) \div 2, <<>>)

DoubleZero == [neg |-> FALSE, m |-> <<>>, e |-> 0]

\* m * 2^e with m made odd.
DoubleOf(neg, m, e) ==
    IF BigTrim(m) = <<>> THEN DoubleZero
    ELSE LET zeros == BigTrailingZeros(m)
         IN [neg |-> neg, m |-> BigShiftRight(m, zeros), e |-> e + zeros]

\* Whether q is rounded away from zero: half compares what was cut off with
\* half a unit of q, and a tie goes to the even q.
RoundsUp(half, q) == half > 0 \/ (half = 0 /\ BigIsOdd(q))

\* m without its last k > 0 binary digits, q, rounded to nearest.
RoundedMantissa(m, k, q) ==
    IF RoundsUp(BigCompare(BigSub(m, BigShiftLeft(q, k)), BigPow2(k - 1)), q)
    THEN BigAdd(q, BigNat(1))
    ELSE q

\* The double nearest to m * 2^e, for m # 0 that has k binary digits more
\* than a mantissa holds (none when k <= 0).
DoubleRoundBy(neg, m, e, k) ==
    DoubleOf(neg,
             IF k <= 0 THEN m ELSE RoundedMantissa(m, k, BigShiftRight(m, k)),
             IF k <= 0 THEN e ELSE e + k)

\* The double nearest to m * 2^e.
DoubleRound(neg, m, e) ==
    IF BigTrim(m) = <<>> THEN DoubleZero
    ELSE DoubleRoundBy(neg, m, e, BigBitLen(BigTrim(m)) - MantissaBits)

DoubleFromInt(n) == DoubleOf(n < 0, BigNat(IF n < 0 THEN -n ELSE n), 0)

DoubleNeg(a) == IF a = DoubleZero THEN a ELSE [a EXCEPT !.neg = ~a.neg]

\* The larger of the magnitudes ma and mb first, each with its sign.
DoubleInOrder(aNeg, ma, bNeg, mb, order) ==
    IF order >= 0 THEN [neg |-> aNeg, big |-> ma, small |-> mb]
    ELSE [neg |-> bNeg, big |-> mb, small |-> ma]

\* The sum of two numbers of magnitudes big >= small at one exponent e: the
\* sign is that of the larger magnitude.
DoubleAddOrdered(sameSign, o, e) ==
    IF ~sameSign /\ o.big = o.small THEN DoubleZero
    ELSE DoubleRound(o.neg,
                     IF sameSign THEN BigAdd(o.big, o.small)
                     ELSE BigSub(o.big, o.small), e)

\* (-1)^aNeg * ma * 2^e + (-1)^bNeg * mb * 2^e
DoubleAddAligned(aNeg, ma, bNeg, mb, e) ==
    DoubleAddOrdered(aNeg = bNeg,
                     DoubleInOrder(aNeg, ma, bNeg, mb, BigCompare(ma, mb)), e)

DoubleAdd(a, b) ==
    IF a = DoubleZero THEN b
    ELSE IF b = DoubleZero THEN a
    ELSE DoubleAddAligned(a.neg, BigShiftLeft(a.m, a.e - Min2(a.e, b.e)),
                          b.neg, BigShiftLeft(b.m, b.e - Min2(a.e, b.e)),
                          Min2(a.e, b.e))

DoubleSub(a, b) == DoubleAdd(a, DoubleNeg(b))

DoubleMul(a, b) ==
    IF a = DoubleZero \/ b = DoubleZero THEN DoubleZero
    ELSE DoubleRound(a.neg # b.neg, BigTimes(a.m, b.m), a.e + b.e)

\* a / b for b # 0: the quotient to more digits than a double holds, with a
\* last digit that tells whether anything was left.
DoubleDiv(a, b) ==
    IF a = DoubleZero THEN DoubleZero
    ELSE LET shift == MantissaBits + 3 + BigBitLen(b.m) - BigBitLen(a.m)
             qr == BigDivMod(BigShiftLeft(a.m, shift), b.m)
             sticky == IF qr.r = <<>> THEN 0 ELSE 1
         IN DoubleRound(a.neg # b.neg,
                        BigAdd(BigAdd(qr.q, qr.q), BigNat(sticky)),
                        a.e - b.e - shift - 1)

\* Math.sqrt(a) for a >= 0.
DoubleSqrt(a) ==
    IF a = DoubleZero THEN DoubleZero
    ELSE LET len == BigBitLen(a.m)
             want == 2 * (MantissaBits + 3) - len
             shift == IF (a.e - want) % 2 = 0 THEN want ELSE want + 1
             scaled == BigShiftLeft(a.m, shift)
             root == BigSqrt(scaled)
             sticky == IF BigSquare(root) = scaled THEN 0 ELSE 1
         IN DoubleRound(FALSE, BigAdd(BigAdd(root, root), BigNat(sticky)),
                        ((a.e - shift) \div 2) - 1)

\* The double a number cell holds.
ToDouble(val) ==
    CASE val.k = "num" -> DoubleFromInt(val.v)
      [] val.k = "tenths" -> DoubleDiv(DoubleFromInt(val.v), DoubleFromInt(10))
      [] OTHER -> DoubleZero

\* values.slice(0, i).reduce((a, b) => a + b, 0)
RECURSIVE DoubleSum(_, _)
DoubleSum(values, i) ==
    IF i = 0 THEN DoubleZero ELSE DoubleAdd(DoubleSum(values, i - 1), values[i])

\* denominator === 0 ? 0 : numerator / denominator
DoubleRatio(numerator, denominator) ==
    IF denominator = DoubleZero THEN DoubleZero
    ELSE DoubleDiv(numerator, denominator)

\* calculateCorrelation as the engine computes it, every step rounded to a
\* double. On columns of whole numbers with a whole mean no step before the
\* square root rounds, and the result is 0 exactly when calculateCorrelation
\* above, which keeps the exact sums, gives ZeroCorrelation.
calculateCorrelationDouble(xValues, yValues) ==
    LET n == Len(xValues)
    IN IF n # Len(yValues) \/ n = 0 THEN DoubleZero
       ELSE
       LET xs == [i \in 1..n |-> ToDouble(xValues[i])] \o <<>>
           ys == [i \in 1..n |-> ToDouble(yValues[i])] \o <<>>
           xMean == DoubleDiv(DoubleSum(xs, n), DoubleFromInt(n))
           yMean == DoubleDiv(DoubleSum(ys, n), DoubleFromInt(n))
           xDiff == [i \in 1..n |-> DoubleSub(xs[i], xMean)] \o <<>>
           yDiff == [i \in 1..n |-> DoubleSub(ys[i], yMean)] \o <<>>
           numerator ==
               DoubleSum([i \in 1..n |-> DoubleMul(xDiff[i], yDiff[i])] \o <<>>, n)
           xDenom ==
               DoubleSum([i \in 1..n |-> DoubleMul(xDiff[i], xDiff[i])] \o <<>>, n)
           yDenom ==
               DoubleSum([i \in 1..n |-> DoubleMul(yDiff[i], yDiff[i])] \o <<>>, n)
           denominator == DoubleSqrt(DoubleMul(xDenom, yDenom))
       IN DoubleRatio(numerator, denominator)

\* ----------------------------------------------------- getRecommendations
HasStat(col, name) == name \in DOMAIN col.stats

\* The positions of the columns of the given types, in column order.
ColumnsOfType(columns, types) == SelectSeq(columns, LAMBDA c : c.type \in types)

\* data.map(d => d[key])
ColumnValues(data, key) == [r \in 1..Len(data) |-> RowGet(data[r], key)]

\* The concatenation of a sequence of sequences.
RECURSIVE Flatten(_)
Flatten(ss) == IF ss = <<>> THEN <<>> ELSE Head(ss) \o Flatten(Tail(ss))

\* 1. Distribution analysis.
DistributionRecs(numericCols) ==
    Flatten([i \in 1..Len(numericCols) |->
       LET col == numericCols[i] IN
       IF HasStat(col, "stdDev") /\ col.stats.stdDev.sqrtOf.num > 0
       THEN << [type |-> "bar", xAxis |-> col.key, yAxis |-> col.key,
                title |-> <<"D", "i", "s", "t", "r", "i", "b", "u", "t", "i", "o", "n", " ", "o", "f", " ">> \o col.label,
                score |-> FixedScore(50 + (IF col.stats.variance.num
                                                > 1000 * col.stats.variance.den
                                             THEN 20 ELSE 0)),
                isHistogram |-> TRUE] >>
       ELSE <<>>])

\* Variant of the trend analysis that takes the last date column.
TrendRecsLastDate(dateCols, numericCols) ==
    IF Len(dateCols) > 0 /\ Len(numericCols) > 0
    THEN [i \in 1..Len(numericCols) |->
            [type |-> "line", xAxis |-> dateCols[Len(dateCols)].key,
             yAxis |-> numericCols[i].key,
             title |-> numericCols[i].label \o <<" ", "o", "v", "e", "r", " ", "T", "i", "m", "e">>,
             score |-> FixedScore(90)]]
    ELSE <<>>

\* 2. Trend analysis, on the first date column.
TrendRecs(dateCols, numericCols) ==
    IF Len(dateCols) > 0 /\ Len(numericCols) > 0
    THEN [i \in 1..Len(numericCols) |->
            [type |-> "line", xAxis |-> dateCols[1].key, yAxis |-> numericCols[i].key,
             title |-> numericCols[i].label \o <<" ", "o", "v", "e", "r", " ", "T", "i", "m", "e">>,
             score |-> FixedScore(90)]]
    ELSE <<>>

\* Variant of the category comparison that proposes a pie without counting
\* the categories.
CategoryPairRecsLoosePie(catCol, numCol) ==
    LET isPieEligible == HasStat(numCol, "min") /\ numCol.stats.min.v >= 0
    IN (IF isPieEligible
        THEN << [type |-> "pie", xAxis |-> catCol.key, yAxis |-> numCol.key,
                 title |-> numCol.label \o <<" ", "S", "h", "a", "r", "e", " ", "b", "y", " ">> \o catCol.label,
                 score |-> FixedScore(75)] >>
        ELSE <<>>)
       \o << [type |-> "bar", xAxis |-> catCol.key, yAxis |-> numCol.key,
              title |-> numCol.label \o <<" ", "b", "y", " ">> \o catCol.label,
              score |-> FixedScore(80)] >>

\* 3. Category comparison: pie for few positive slices, bar always.
CategoryPairRecs(catCol, numCol) ==
    LET isPieEligible == /\ HasStat(catCol, "uniqueCount")
                         /\ catCol.stats.uniqueCount <= RecPieMaxSlices
                         /\ HasStat(numCol, "min")
                         /\ numCol.stats.min.v >= 0
    IN (IF isPieEligible
        THEN << [type |-> "pie", xAxis |-> catCol.key, yAxis |-> numCol.key,
                 title |-> numCol.label \o <<" ", "S", "h", "a", "r", "e", " ", "b", "y", " ">> \o catCol.label,
                 score |-> FixedScore(75)] >>
        ELSE <<>>)
       \o << [type |-> "bar", xAxis |-> catCol.key, yAxis |-> numCol.key,
              title |-> numCol.label \o <<" ", "b", "y", " ">> \o catCol.label,
              score |-> FixedScore(80)] >>

CategoryRecs(categoryCols, numericCols) ==
    IF Len(categoryCols) > 0 /\ Len(numericCols) > 0
    THEN Flatten([c \in 1..Len(categoryCols) |->
            IF HasStat(categoryCols[c], "uniqueCount")
               /\ categoryCols[c].stats.uniqueCount > RecMaxCategories
            THEN <<>>
            ELSE Flatten([i \in 1..Len(numericCols) |->
                    CategoryPairRecs(categoryCols[c], numericCols[i])])])
    ELSE <<>>

\* Variant of the pair analysis that leaves out a correlation of exactly 0.3.
PairRecsAboveThreshold(data, numericCols, i, j) ==
    LET colA == numericCols[i]
        colB == numericCols[j]
        correlation == calculateCorrelation(ColumnValues(data, colA.key),
                                            ColumnValues(data, colB.key))
        sizeCols == SelectSeq(numericCols,
                       LAMBDA c : /\ c.key # colA.key /\ c.key # colB.key
                                  /\ HasStat(c, "variance")
                                  /\ c.stats.variance.num > 0)
    IN IF ~AbsGreater(correlation, 3, 10) THEN <<>>
       ELSE << [type |-> "scatter", xAxis |-> colA.key, yAxis |-> colB.key,
                title |-> colA.label \o <<" ", "v", "s", " ">> \o colB.label,
                description |->
                   [strength |-> IF AbsGreater(correlation, 7, 10)
                                 THEN "Strong" ELSE "Moderate",
                    direction |-> IF IsPositive(correlation)
                                  THEN "positive" ELSE "negative",
                    r |-> (IF IsPositive(correlation) THEN 1 ELSE -1)
                          * AbsHundredths(correlation)],
                score |-> CorrelationScore(70, 30, correlation)] >>
            \o (IF sizeCols = <<>> THEN <<>>
                ELSE << [type |-> "bubble", xAxis |-> colA.key, yAxis |-> colB.key,
                         sizeAxis |-> sizeCols[1].key,
                         title |-> <<"M", "u", "l", "t", "i", "v", "a", "r", "i", "a", "t", "e", ":", " ">> \o colA.label \o <<" ", "v", "s", " ">> \o colB.label
                                   \o <<" ", "v", "s", " ">> \o sizeCols[1].label,
                         score |-> CorrelationScore(85, 10, correlation)] >>)

\* 4. and 5. Scatter for a correlated pair, bubble when a third numeric
\* column with variance can give the size.
PairRecs(data, numericCols, i, j) ==
    LET colA == numericCols[i]
        colB == numericCols[j]
        correlation == calculateCorrelation(ColumnValues(data, colA.key),
                                            ColumnValues(data, colB.key))
        sizeCols == SelectSeq(numericCols,
                       LAMBDA c : /\ c.key # colA.key /\ c.key # colB.key
                                  /\ HasStat(c, "variance")
                                  /\ c.stats.variance.num > 0)
    IN IF ~AbsAtLeast(correlation, 3, 10) THEN <<>>
       ELSE << [type |-> "scatter", xAxis |-> colA.key, yAxis |-> colB.key,
                title |-> colA.label \o <<" ", "v", "s", " ">> \o colB.label,
                description |->
                   [strength |-> IF AbsGreater(correlation, 7, 10)
                                 THEN "Strong" ELSE "Moderate",
                    direction |-> IF IsPositive(correlation)
                                  THEN "positive" ELSE "negative",
                    r |-> (IF IsPositive(correlation) THEN 1 ELSE -1)
                          * AbsHundredths(correlation)],
                score |-> CorrelationScore(70, 30, correlation)] >>
            \o (IF sizeCols = <<>> THEN <<>>
                ELSE << [type |-> "bubble", xAxis |-> colA.key, yAxis |-> colB.key,
                         sizeAxis |-> sizeCols[1].key,
                         title |-> <<"M", "u", "l", "t", "i", "v", "a", "r", "i", "a", "t", "e", ":", " ">> \o colA.label \o <<" ", "v", "s", " ">> \o colB.label
                                   \o <<" ", "v", "s", " ">> \o sizeCols[1].label,
                         score |-> CorrelationScore(85, 10, correlation)] >>)

CorrelationRecs(data, numericCols) ==
    IF Len(numericCols) >= 2
    THEN Flatten([i \in 1..Len(numericCols) |->
            Flatten([d \in 1..(Len(numericCols) - i) |->
                       PairRecs(data, numericCols, i, i + d)])])
    ELSE <<>>

\* The recommendations array before it is sorted.
Candidates(data, columns) ==
    LET numericCols == ColumnsOfType(columns, {"number"})
        categoryCols == ColumnsOfType(columns, {"category", "text"})
        dateCols == ColumnsOfType(columns, {"date"})
    IN DistributionRecs(numericCols)
       \o TrendRecs(dateCols, numericCols)
       \o CategoryRecs(categoryCols, numericCols)
       \o CorrelationRecs(data, numericCols)

\* Variant that leaves the recommendations in the order they were pushed.
SortUnsorted(recs) == recs

\* recommendations.sort((a, b) => b.score - a.score)
SortByScore(recs) == StableSort(LAMBDA a, b : ScoreLess(b.score, a.score), recs)

\* Keep the first recommendation of every title.
UniqueByTitle(recs) ==
    AtPositions(recs, {i \in 1..Len(recs) :
                         \A j \in 1..(i - 1) : recs[j].title # recs[i].title})

getRecommendations(data, columns) ==
    Take(UniqueByTitle(SortByScore(Candidates(data, columns))), RecTopN)

\* ------------------------------------------------------------------ state
VARIABLES
    rawData,    \* the value handed to processData
    analysis,   \* processData(rawData)
    call,       \* the last call of a pure function, with its result
    config,     \* ManualExplorer: the config state
    hint,       \* ManualExplorer: the hint state
    dashboard,  \* Dashboard: its state hooks
    firestore,  \* the "dashboards" collection and the addDoc calls in flight
    upload      \* FileUpload: its loading state and the file handling in flight

vars == <<rawData, analysis, call, config, hint, dashboard, firestore, upload>>

\* ManualExplorer's useState defaults.
InitConfig == [type |-> "bar", xAxis |-> <<>>, yAxis |-> <<>>, aggregation |-> "mean"]
NoHint == ""
NoCall == [fn |-> "none"]
\* A component that is not on screen, and a collection nobody writes to.
NotMounted == [mounted |-> FALSE]
NoFirestore == [docs |-> {}, pending |-> {}]

\* ----------------------------------------------------------------- inputs
\* A column of raw cells is drawn by shape: its kind of cell, the number d of
\* distinct values it cycles through, and its lowest value lo.
Shape(kind, d, lo) == [kind |-> kind, d |-> d, lo |-> lo]

\* Columns of numbers with chosen correlations: series 2 to 5 have
\* r = 0.7, 0.3, -0.3 and -0.7 against series 1, and series 7 has r = 0.85
\* against series 6. Their means are integers.
Series ==
    << <<0, 1, 2, 3, 4>>, <<0, 1, 3, 4, 2>>, <<0, 2, 4, 3, 1>>, <<1, 3, 4, 2, 0>>,
       <<2, 4, 3, 1, 0>>, <<0, 0, 0, 0, 1, 5>>, <<0, 1, 1, 1, 4, 5>> >>

\* The cell of row i (from 0) of a column of the given shape.
GenValue(shape, i) ==
    CASE shape.kind = "num" -> Num(shape.lo + (i % shape.d))
      [] shape.kind = "fmtnum" -> FmtNum(shape.lo + (i % shape.d))
      [] shape.kind = "numdesc" -> Num(shape.lo + (shape.d - 1 - (i % shape.d)))
      [] shape.kind = "numsq" -> Num(shape.lo + (i % shape.d) * (i % shape.d))
      [] shape.kind = "date" -> DateStr(shape.lo + (i % shape.d))
      [] shape.kind = "str" -> Str(i % shape.d)
      [] shape.kind = "blank" -> (IF i % 2 = 0 THEN Null ELSE EmptyStr)
      [] shape.kind = "numgap" ->
            (IF i % 6 = 5 THEN Str(0) ELSE Num(shape.lo + (i % shape.d)))
      [] shape.kind = "strgap" ->
            (IF i % 3 = 2 THEN Null ELSE Str(i % shape.d))
      [] shape.kind = "mixed" ->
            (IF i % shape.d = 0 THEN Num(shape.lo)
             ELSE IF i % shape.d = 1 THEN NumStr(shape.lo)
             ELSE Str(i % shape.d))
      [] shape.kind = "switch" ->
            (IF i < shape.d THEN Str(i % 3)
             ELSE IF i < SampleSize THEN Num(shape.lo + (i % 7))
             ELSE Str(3 + i))
      [] shape.kind = "multiples" -> Num(shape.lo * ((i % shape.d) + 1))
      [] shape.kind = "dateobj" -> DateObj(shape.lo + (i % shape.d))
      [] shape.kind = "numtext" ->
            (IF i % 3 = 1 THEN Str(0) ELSE Num(shape.lo + (i % shape.d)))
      [] shape.kind = "tenths" -> Tenths(shape.lo + (i % shape.d))
      [] shape.kind = "spike" -> Num(IF i = shape.d THEN shape.lo + 1 ELSE shape.lo)
      [] shape.kind = "series" ->
            Num(shape.lo + Series[shape.d][(i % Len(Series[shape.d])) + 1])

\* n rows whose columns keys[c] have the shapes shapes[c].
Dataset(n, keys, shapes) ==
    [r \in 1..n |->
       [c \in 1..Len(keys) |-> [key |-> keys[c], val |-> GenValue(shapes[c], r - 1)]]]

\* columns.find(c => c.key === key)
FindColumn(columns, key) ==
    IF \E i \in 1..Len(columns) : columns[i].key = key
    THEN columns[CHOOSE i \in 1..Len(columns) : columns[i].key = key
                    /\ \A j \in 1..(i - 1) : columns[j].key # key]
    ELSE NoColumn

\* The column at position i of the analysis, 0 for an unselected axis.
ColAt(i) == IF i = 0 THEN NoColumn ELSE analysis.columns[i]

\* The number of distinct non-null values of a column in the typed rows.
DistinctCount(col) ==
    Cardinality({KeyOf(RowGet(analysis.data[r], col.key)) : r \in 1..Len(analysis.data)}
                \ {Null})

\* ----------------------------------------------- validator, as a function
ValidatorKeys == << <<"a">>, <<"b">> >>
ValidatorRows == {1, PieMaxSlices + 1, MaxRows}
DistinctChoices == {1, PieMaxSlices, PieMaxSlices + 1, BarMaxCategories,
                    BarMaxCategories + 1}
XShapes ==
    {Shape(kind, d, lo) : kind \in {"num", "fmtnum", "date", "str", "numgap", "strgap"},
                          d \in DistinctChoices, lo \in {-1, 0}}
    \cup {Shape("blank", 1, 0)}
YShapes ==
    {Shape(kind, 2, lo) : kind \in {"num", "date", "str"}, lo \in {-1, 0}}
    \cup {Shape("blank", 1, 0)}

InitValidate ==
    /\ \E n \in ValidatorRows, sx \in XShapes, sy \in YShapes :
          rawData = Array(Dataset(n, ValidatorKeys, <<sx, sy>>))
    /\ analysis = processData(rawData)
    /\ call = NoCall
    /\ config = InitConfig
    /\ hint = NoHint
    /\ dashboard = NotMounted
    /\ firestore = NoFirestore
    /\ upload = NotMounted

CallValidateChart ==
    /\ call = NoCall
    /\ \E type \in ChartTypes, x \in 0..Len(analysis.columns),
          y \in 0..Len(analysis.columns) :
          call' = [fn |-> "validateChart", type |-> type, x |-> x, y |-> y,
                   result |-> validateChart(type, ColAt(x), ColAt(y))]
    /\ UNCHANGED <<rawData, analysis, config, hint, dashboard, firestore, upload>>

CallSuggestSmartConfig ==
    /\ call = NoCall
    /\ \E x \in 0..Len(analysis.columns), y \in 0..Len(analysis.columns) :
          call' = [fn |-> "suggestSmartConfig", x |-> x, y |-> y,
                   result |-> suggestSmartConfig(ColAt(x), ColAt(y))]
    /\ UNCHANGED <<rawData, analysis, config, hint, dashboard, firestore, upload>>

NextValidate == CallValidateChart \/ CallSuggestSmartConfig

SpecValidate == InitValidate /\ [][NextValidate]_vars

\* ------------------------------------- recommendation engine, as a function
RecKeys == << <<"a">>, <<"A">>, <<"b">>, <<"a", "b">>, <<"b", "_", "a">> >>
RecRows == 2..MaxRecRows
RecShapes ==
    { <<s1, s2, s3, s4, s5>> :
        s1 \in {Shape("num", 1, 0), Shape("num", 2, -1), Shape("num", 3, 0),
                Shape("date", 2, 0)},
        s2 \in {Shape("num", 3, 0), Shape("numdesc", 3, 0), Shape("numsq", 3, 0),
                Shape("str", 2, 0)},
        s3 \in {Shape("numsq", 2, 0), Shape("date", 2, 0), Shape("str", 2, 0)},
        s4 \in {Shape("date", 3, 0), Shape("str", RecPieMaxSlices + 1, 0),
                Shape("blank", 1, 0)},
        s5 \in {Shape("str", RecPieMaxSlices, 0), Shape("strgap", 2, 0),
                Shape("str", RecMaxCategories + 1, 0)} }

\* Datasets long enough to hold a column of more than 50 categories.
LongRecShapes == {shapes \in RecShapes :
                    /\ shapes[2] = Shape("numdesc", 3, 0)
                    /\ shapes[5] = Shape("str", RecMaxCategories + 1, 0)}

\* Datasets of two columns of a chosen correlation, with or without a third
\* numeric column.
SeriesRecShapes ==
    { <<Shape("series", pair[1], 0), Shape("series", pair[2], 0), s3, s4,
        Shape("str", RecPieMaxSlices, 0)>> :
        pair \in {<<1, 2>>, <<1, 3>>, <<1, 4>>, <<1, 5>>, <<6, 7>>},
        s3 \in {Shape("numsq", 2, 0), Shape("date", 2, 0), Shape("str", 2, 0)},
        s4 \in {Shape("date", 3, 0), Shape("blank", 1, 0)} }

InitRecommend ==
    /\ \/ \E n \in RecRows, shapes \in RecShapes :
             rawData = Array(Dataset(n, RecKeys, shapes))
       \/ \E shapes \in LongRecShapes :
             rawData = Array(Dataset(RecMaxCategories + 1, RecKeys, shapes))
       \/ \E shapes \in SeriesRecShapes :
             rawData = Array(Dataset(Len(Series[shapes[1].d]), RecKeys, shapes))
    /\ analysis = processData(rawData)
    /\ call = NoCall
    /\ config = InitConfig
    /\ hint = NoHint
    /\ dashboard = NotMounted
    /\ firestore = NoFirestore
    /\ upload = NotMounted

CallGetRecommendations ==
    /\ call = NoCall
    /\ call' = [fn |-> "getRecommendations",
                candidates |-> Candidates(analysis.data, analysis.columns),
                result |-> getRecommendations(analysis.data, analysis.columns)]
    /\ UNCHANGED <<rawData, analysis, config, hint, dashboard, firestore, upload>>

NextRecommend == CallGetRecommendations

SpecRecommend == InitRecommend /\ [][NextRecommend]_vars

\* -------------------------------------------- processData, as a function
\* processData is applied once to an input; analysis holds what it returned.
ProcessKeys == << <<"a">>, <<"b">> >>
ExtraKey == <<"a", "b">>
ProcessRows == 0..MaxProcessRows
FirstShapes ==
    {Shape("num", 3, -1), Shape("fmtnum", 2, 0), Shape("date", 2, 0),
     Shape("str", 3, 0), Shape("blank", 1, 0), Shape("numgap", 4, 0),
     Shape("strgap", 2, 0), Shape("mixed", 4, 0)}
SecondShapes ==
    {Shape("num", 2, 0), Shape("numdesc", 5, -2), Shape("str", TopSize + 2, 0),
     Shape("mixed", 3, 5), Shape("blank", 1, 0)}

\* The rows with every even row after the first lacking the second key and
\* every third row carrying a key the first row does not have.
Ragged(rows) ==
    [r \in 1..Len(rows) |->
       (IF r > 1 /\ r % 2 = 0
        THEN SelectSeq(rows[r], LAMBDA e : e.key # ProcessKeys[2])
        ELSE rows[r])
       \o (IF r % 3 = 0 THEN <<[key |-> ExtraKey, val |-> Str(0)]>> ELSE <<>>)]

InitProcess ==
    /\ \/ rawData \in {Null, Undefined}
       \/ \E n \in ProcessRows, s1 \in FirstShapes, s2 \in SecondShapes :
             \/ rawData = Array(Dataset(n, ProcessKeys, <<s1, s2>>))
             \/ rawData = Array(Ragged(Dataset(n, ProcessKeys, <<s1, s2>>)))
    /\ analysis = NoAnalysis
    /\ call = NoCall
    /\ config = InitConfig
    /\ hint = NoHint
    /\ dashboard = NotMounted
    /\ firestore = NoFirestore
    /\ upload = NotMounted

CallProcessData ==
    /\ call = NoCall
    /\ analysis' = processData(rawData)
    /\ call' = [fn |-> "processData"]
    /\ UNCHANGED <<rawData, config, hint, dashboard, firestore, upload>>

NextProcess == CallProcessData

SpecProcess == InitProcess /\ [][NextProcess]_vars

\* -------------------------------------- analyzeColumnType, as a function
InferKeys == << <<"a">> >>
AbsentKey == <<"b">>
InferRows == 1..MaxRows
InferShapes ==
    FirstShapes \cup SecondShapes
    \cup {Shape("str", CategoryMaxUnique, 0), Shape("str", CategoryMaxUnique + 1, 0),
          Shape("numgap", 5, 0), Shape("date", 3, 0)}

\* Long columns: the shape and the number of rows before the tail. A fifth
\* of the sample is the share of other values a number column may not reach;
\* five rows a distinct value is the ratio 0.2.
LongInferColumns ==
    {<<Shape("switch", SampleSize \div 5, 0), SampleSize>>,
     <<Shape("switch", (SampleSize \div 5) - 1, 0), SampleSize>>,
     <<Shape("str", CategoryMaxUnique + 1, 0), 5 * (CategoryMaxUnique + 1)>>,
     <<Shape("str", CategoryMaxUnique + 1, 0), 5 * (CategoryMaxUnique + 1) + 1>>,
     <<Shape("str", CategoryRatioMaxUnique - 1, 0), 5 * (CategoryRatioMaxUnique - 1)>>,
     <<Shape("str", CategoryRatioMaxUnique - 1, 0), 5 * (CategoryRatioMaxUnique - 1) + 1>>,
     <<Shape("str", CategoryRatioMaxUnique, 0), SampleSize>>}

InitInfer ==
    /\ \/ \E n \in InferRows, shape \in InferShapes :
             rawData = Array(Dataset(n, InferKeys, <<shape>>))
       \/ \E long \in LongInferColumns, tail \in 0..MaxTailRows :
             rawData = Array(Dataset(long[2] + tail, InferKeys, <<long[1]>>))
    /\ analysis = NoAnalysis
    /\ call = NoCall
    /\ config = InitConfig
    /\ hint = NoHint
    /\ dashboard = NotMounted
    /\ firestore = NoFirestore
    /\ upload = NotMounted

CallAnalyzeColumnType ==
    /\ call = NoCall
    /\ \E key \in Range(InferKeys) \cup {AbsentKey} :
          call' = [fn |-> "analyzeColumnType", key |-> key,
                   result |-> analyzeColumnType(rawData.v, key)]
    /\ UNCHANGED <<rawData, analysis, config, hint, dashboard, firestore, upload>>

NextInfer == CallAnalyzeColumnType

SpecInfer == InitInfer /\ [][NextInfer]_vars

\* ----------------------------------- calculateCorrelation, as a function
\* Two columns of numbers with one decimal: constant ones and ones that vary.
CorrelationKeys == << <<"x">>, <<"y">> >>
CorrelationShapes ==
    {Shape("tenths", d, lo) : d \in 1..2, lo \in {1, 3}} \cup {Shape("num", 1, 3)}
CorrelationRows == 0..MaxCorrRows

InitCorrelation ==
    /\ \E xShape \in CorrelationShapes, yShape \in CorrelationShapes :
          rawData = Array(Dataset(MaxCorrRows, CorrelationKeys, <<xShape, yShape>>))
    /\ analysis = NoAnalysis
    /\ call = NoCall
    /\ config = InitConfig
    /\ hint = NoHint
    /\ dashboard = NotMounted
    /\ firestore = NoFirestore
    /\ upload = NotMounted

\* calculateCorrelation(xValues, yValues) on the first i values of column x
\* and the first j of column y.
CallCalculateCorrelation ==
    /\ call = NoCall
    /\ \E i \in CorrelationRows, j \in CorrelationRows :
          LET xValues == SubSeq(ColumnValues(rawData.v, CorrelationKeys[1]), 1, i)
              yValues == SubSeq(ColumnValues(rawData.v, CorrelationKeys[2]), 1, j)
          IN call' = [fn |-> "calculateCorrelation",
                      xValues |-> xValues, yValues |-> yValues,
                      result |-> calculateCorrelationDouble(xValues, yValues)]
    /\ UNCHANGED <<rawData, analysis, config, hint, dashboard, firestore, upload>>

NextCorrelation == CallCalculateCorrelation

SpecCorrelation == InitCorrelation /\ [][NextCorrelation]_vars

\* --------------------------------------------- sampleData, step by step
\* A call of sampleData is followed through its loop: call holds the limit,
\* the position (pc) and the Set indices, kept as the sequence of its
\* elements in insertion order, which is the order forEach visits them in.
SampleKeys == << <<"a">> >>
SampleRows == 0..MaxSampleRows
SampleLimits == 0..(MaxSampleRows + 1)

\* Variant of the sample that lists the drawn rows in the order of the input.
SampleInRowOrder(data, indices) ==
    LET sorted == StableSort(LAMBDA a, b : a < b, indices)
    IN [k \in 1..Len(indices) |-> data[sorted[k] + 1]]

\* indices.forEach(i => sample.push(data[i]))
SampleOf(data, indices) == [k \in 1..Len(indices) |-> data[indices[k] + 1]]

\* Variant of the draw that only ever gives index 0.
DrawableFirstOnly(total) == {0}

\* The values Math.floor(Math.random() * total) can take.
Drawable(total) == 0..(total - 1)

\* indices.add(idx)
SetAdd(indices, idx) ==
    IF idx \in Range(indices) THEN indices ELSE Append(indices, idx)

InitSample ==
    /\ \/ rawData \in {Null, Undefined}
       \/ \E n \in SampleRows :
             rawData = Array(Dataset(n, SampleKeys, <<Shape("num", MaxSampleRows + 1, 0)>>))
    /\ analysis = NoAnalysis
    /\ call = NoCall
    /\ config = InitConfig
    /\ hint = NoHint
    /\ dashboard = NotMounted
    /\ firestore = NoFirestore
    /\ upload = NotMounted

\* sampleData(data, limit) up to its loop: the two early returns hand back
\* data itself.
CallSampleData ==
    /\ call = NoCall
    /\ \E limit \in SampleLimits :
          call' = IF IsNullish(rawData) \/ Len(rawData.v) <= limit
                     \/ limit >= Len(rawData.v)
                  THEN [fn |-> "sampleData", limit |-> limit, pc |-> "done",
                        indices |-> <<>>, result |-> rawData]
                  ELSE [fn |-> "sampleData", limit |-> limit, pc |-> "loop",
                        indices |-> <<>>, result |-> Undefined]
    /\ UNCHANGED <<rawData, analysis, config, hint, dashboard, firestore, upload>>

\* One turn of the loop in which Math.random gives idx.
DrawIndex(idx) ==
    /\ call.fn = "sampleData"
    /\ call.pc = "loop"
    /\ Len(call.indices) < call.limit
    /\ idx \in Drawable(Len(rawData.v))
    /\ call' = [call EXCEPT !.indices = SetAdd(@, idx)]
    /\ UNCHANGED <<rawData, analysis, config, hint, dashboard, firestore, upload>>

DrawSample == \E idx \in 0..MaxSampleRows : DrawIndex(idx)

\* The loop's test fails: the sample is built and returned.
ReturnSample ==
    /\ call.fn = "sampleData"
    /\ call.pc = "loop"
    /\ Len(call.indices) >= call.limit
    /\ call' = [call EXCEPT !.pc = "done",
                            !.result = Array(SampleOf(rawData.v, call.indices))]
    /\ UNCHANGED <<rawData, analysis, config, hint, dashboard, firestore, upload>>

NextSample == CallSampleData \/ DrawSample \/ ReturnSample

SpecSample == InitSample /\ [][NextSample]_vars

\* Fair random draws: no index is held back for ever, and the loop goes on.
SpecSampleFair ==
    /\ SpecSample
    /\ \A idx \in 0..MaxSampleRows : WF_vars(DrawIndex(idx))
    /\ WF_vars(ReturnSample)

\* ------------------------------------------------- claims on validateChart
IsValidateCall == call.fn = "validateChart"
CallX == ColAt(call.x)
CallY == ColAt(call.y)
BothPresent == IsPresent(CallX) /\ IsPresent(CallY)
BothNumeric == CallX.type = "number" /\ CallY.type = "number"
IsBlocked(r) == r.valid = FALSE /\ r.severity = "BLOCK"
IsAutoFixToScatter(r) ==
    /\ r.valid = FALSE
    /\ r.severity = "AUTO_FIX"
    /\ r.suggestedType = "scatter"

\* C1: for two present numeric columns validateChart answers valid for
\* scatter, and AUTO_FIX with suggestedType scatter for every other type,
\* before any pie, bar or line rule is looked at.
C1_NumericPairIsScatter ==
    (IsValidateCall /\ BothPresent /\ BothNumeric) =>
        IF call.type = "scatter" THEN call.result = [valid |-> TRUE]
        ELSE IsAutoFixToScatter(call.result)

\* A pie asked for two numeric columns, y with negative values: the numeric
\* pair rule answers, not the pie rules.
C1_Witness ==
    /\ IsValidateCall /\ BothPresent /\ BothNumeric
    /\ call.type = "pie"
    /\ HasNegatives(CallY)
    /\ IsAutoFixToScatter(call.result)

\* C2: a pie or doughnut over a non-numeric x column with more than 6
\* distinct values, y without negative values, is blocked.
C2_PieTooManySlicesBlocked ==
    (/\ IsValidateCall /\ BothPresent
     /\ call.type \in {"pie", "doughnut"}
     /\ CallX.type \in {"category", "text", "date"}
     /\ ~HasNegatives(CallY)
     /\ DistinctCount(CallX) > PieMaxSlices)
        => IsBlocked(call.result)

\* C3: scatter over two present columns, not both numeric, is blocked.
C3_ScatterNeedsNumericPair ==
    (IsValidateCall /\ BothPresent /\ call.type = "scatter" /\ ~BothNumeric)
        => IsBlocked(call.result)

C3_Witness ==
    /\ IsValidateCall /\ BothPresent
    /\ call.type = "scatter"
    /\ CallX.type = "number" /\ CallY.type = "category"
    /\ IsBlocked(call.result)

\* C4: a bar over a numeric x column with more than 20 distinct values is
\* answered AUTO_FIX with suggestedType scatter, whatever the y column.
C4_BarNumericXAutoFix ==
    (/\ IsValidateCall /\ BothPresent
     /\ call.type = "bar"
     /\ CallX.type = "number"
     /\ DistinctCount(CallX) > BarMaxCategories)
        => IsAutoFixToScatter(call.result)

\* C5: for a pie or doughnut over present columns that are not both
\* numeric, a numeric x is blocked as not categorical; otherwise a y column
\* with min < 0 is blocked for its negative values, also when x has more than
\* 6 distinct values.
C5_PiePrecedence ==
    (/\ IsValidateCall /\ BothPresent
     /\ call.type \in {"pie", "doughnut"})
        => /\ HasNegatives(CallY) => call.result.valid = FALSE
           /\ (~BothNumeric /\ CallX.type = "number") =>
                 /\ IsBlocked(call.result)
                 /\ call.result.reason = <<"Pie charts require a categorical X-axis.">>
           /\ (~BothNumeric /\ CallX.type # "number" /\ HasNegatives(CallY)) =>
                 /\ IsBlocked(call.result)
                 /\ call.result.reason = <<"Pie charts cannot display negative values.">>

\* A pie whose y has negative values and whose x has more than 6 values.
C5_Witness ==
    /\ IsValidateCall /\ BothPresent /\ ~BothNumeric
    /\ call.type = "pie"
    /\ CallX.type # "number"
    /\ UniqueX(CallX) > PieMaxSlices
    /\ HasNegatives(CallY)
    /\ call.result.reason = <<"Pie charts cannot display negative values.">>

\* C6: validateChart answers every call with a structured result: a missing
\* column gives BLOCK "Select axes first" whatever the type, a result with
\* valid false carries a severity BLOCK or AUTO_FIX and a reason, and
\* suggestedType comes only with AUTO_FIX.
C6_StructuredResult ==
    IsValidateCall =>
        LET r == call.result IN
        /\ "valid" \in DOMAIN r
        /\ r.valid \in BOOLEAN
        /\ ~BothPresent => r = [valid |-> FALSE, severity |-> "BLOCK",
                                reason |-> <<"Select axes first">>]
        /\ r.valid = FALSE =>
              /\ {"severity", "reason"} \subseteq DOMAIN r
              /\ r.severity \in {"BLOCK", "AUTO_FIX"}
              /\ r.reason # <<>>
        /\ "suggestedType" \in DOMAIN r => r.severity = "AUTO_FIX"

\* A line chart refused for a category x column.
C6_Witness ==
    /\ IsValidateCall /\ BothPresent
    /\ call.type = "line"
    /\ CallX.type = "category"
    /\ call.result.valid = FALSE
    /\ "suggestedType" \notin DOMAIN call.result

\* ---------------------------------------------------------- ManualExplorer
AxisField(axis) == IF axis = "x" THEN "xAxis" ELSE "yAxis"

\* Variant of handleAxisChange that switches for every suggestion, without
\* validating the previous type.
AxisChangeAlwaysSwitches(cfg, columns, axis, value) ==
    LET moved == [cfg EXCEPT ![AxisField(axis)] = value]
        smart == suggestSmartConfig(FindColumn(columns, moved.xAxis),
                                    FindColumn(columns, moved.yAxis))
    IN IF smart = NoSuggestion THEN [config |-> moved, hint |-> NoHint]
       ELSE [config |-> [moved EXCEPT !.type = smart.type,
                                      !.aggregation = IF smart.aggregation # "null"
                                                      THEN smart.aggregation ELSE @],
             hint |-> NoHint]

\* handleAxisChange(axis, value): the config and the hint it sets.
AxisChange(cfg, columns, axis, value) ==
    LET moved == [cfg EXCEPT ![AxisField(axis)] = value]
        newXKey == IF axis = "x" THEN value ELSE cfg.xAxis
        newYKey == IF axis = "y" THEN value ELSE cfg.yAxis
        newXCol == FindColumn(columns, newXKey)
        newYCol == FindColumn(columns, newYKey)
        smart == suggestSmartConfig(newXCol, newYCol)
        currentValidation == validateChart(moved.type, newXCol, newYCol)
        switch == /\ IsPresent(newXCol) /\ IsPresent(newYCol)
                  /\ smart # NoSuggestion
                  /\ \/ moved.type = ""
                     \/ ~currentValidation.valid
                     \/ /\ "severity" \in DOMAIN currentValidation
                        /\ currentValidation.severity = "AUTO_FIX"
    IN IF ~switch THEN [config |-> moved, hint |-> NoHint]
       ELSE [config |-> [moved EXCEPT !.type = smart.type,
                                      !.aggregation = IF smart.aggregation # "null"
                                                      THEN smart.aggregation ELSE @],
             hint |-> IF smart.type = "scatter"
                      THEN "Auto-switched to Scatter because both axes are numeric."
                      ELSE IF smart.type = "line"
                      THEN "Auto-switched to Line for time-series trend."
                      ELSE NoHint]

\* The resolved columns of the current config.
XCol == FindColumn(analysis.columns, config.xAxis)
YCol == FindColumn(analysis.columns, config.yAxis)

\* The options of the two axis selects.
XOptions == {analysis.columns[i].key : i \in 1..Len(analysis.columns)}
YOptions == {analysis.columns[i].key : i \in
               {j \in 1..Len(analysis.columns) : analysis.columns[j].type = "number"}}

ButtonTypes == {"bar", "line", "pie", "doughnut", "scatter"}
Aggregations == {"mean", "sum", "count", "median"}

\* Variant of isBlocked that disables a button for BLOCK only.
IsButtonBlockedOnlyBlock(type) ==
    LET status == validateChart(type, XCol, YCol)
    IN "severity" \in DOMAIN status /\ status.severity = "BLOCK"

\* typeAvailability[type] and the button's isBlocked.
IsButtonBlocked(type) ==
    LET status == validateChart(type, XCol, YCol)
    IN "severity" \in DOMAIN status /\ status.severity \in {"BLOCK", "AUTO_FIX"}

\* The X-axis select changes.
SelectXAxis ==
    /\ \E value \in XOptions \ {config.xAxis} :
          LET next == AxisChange(config, analysis.columns, "x", value)
          IN config' = next.config /\ hint' = next.hint
    /\ UNCHANGED <<rawData, analysis, call, dashboard, firestore, upload>>

\* The Y-axis select changes.
SelectYAxis ==
    /\ \E value \in YOptions \ {config.yAxis} :
          LET next == AxisChange(config, analysis.columns, "y", value)
          IN config' = next.config /\ hint' = next.hint
    /\ UNCHANGED <<rawData, analysis, call, dashboard, firestore, upload>>

\* A chart type button that is not disabled is clicked.
ClickType ==
    /\ \E type \in ButtonTypes :
          /\ ~IsButtonBlocked(type)
          /\ config' = [config EXCEPT !.type = type]
    /\ UNCHANGED <<rawData, analysis, call, hint, dashboard, firestore, upload>>

\* The aggregation select, shown for a non-scatter chart over a non-numeric x.
ChangeAggregation ==
    /\ config.type # "scatter"
    /\ IsPresent(XCol)
    /\ XCol.type # "number"
    /\ \E a \in Aggregations \ {config.aggregation} :
          config' = [config EXCEPT !.aggregation = a]
    /\ UNCHANGED <<rawData, analysis, call, hint, dashboard, firestore, upload>>

ExplorerKeys == << <<"a">>, <<"b">>, <<"a", "b">>, <<"b", "a">> >>
ExplorerShapes ==
    { <<s1, s2, s3, s4>> :
        s1 \in {Shape("num", 2, -1), Shape("num", 2, 0)},
        s2 \in {Shape("num", BarMaxCategories + 1, 0), Shape("fmtnum", 2, 0)},
        s3 \in {Shape("date", 2, 0), Shape("date", PieMaxSlices + 1, -1),
                Shape("blank", 1, 0)},
        s4 \in {Shape("str", d, 0) :
                  d \in {PieMaxSlices, PieMaxSlices + 1, BarMaxCategories + 1}} }

InitExplorer ==
    /\ \E n \in ValidatorRows, shapes \in ExplorerShapes :
          rawData = Array(Dataset(n, ExplorerKeys, shapes))
    /\ analysis = processData(rawData)
    /\ call = NoCall
    /\ config = InitConfig
    /\ hint = NoHint
    /\ dashboard = NotMounted
    /\ firestore = NoFirestore
    /\ upload = NotMounted

NextExplorer == SelectXAxis \/ SelectYAxis \/ ClickType \/ ChangeAggregation

SpecExplorer == InitExplorer /\ [][NextExplorer]_vars

\* ------------------------------------------- what is handed to ChartRenderer
\* ManualExplorer's SCATTER_LIMIT and SAMPLE_SIZE.
ScatterLimit == 1000
ScatterSampleSize == 500
\* The limits of the aggregation branch.
PieGroupLimit == 6
BarGroupLimit == 20

\* Index sequences the loop of sampleData can leave for a limit below total:
\* rising or falling runs from either end. (Every sequence of distinct
\* indices is possible; SpecSample follows the loop itself.)
SampleDraws(total, limit) ==
    {[k \in 1..limit |-> (start + (k - 1) * stride) % total] :
        start \in {0, total - 1}, stride \in {1, total - 1}}

\* sampleData, as the set of results of these draws.
sampleData(data, limit) ==
    IF Len(data) <= limit THEN {data}
    ELSE {SampleOf(data, indices) \o <<>> : indices \in SampleDraws(Len(data), limit)}

\* The limit of the aggregation branch; xCol.stats.uniqueCount > 20 is false
\* for a column whose stats have no uniqueCount.
AggregationLimit(cfg, xCol) ==
    IF cfg.type = "bar" /\ HasStat(xCol, "uniqueCount")
                        /\ xCol.stats.uniqueCount > BarGroupLimit
    THEN Num(BarGroupLimit)
    ELSE IF cfg.type \in {"pie", "doughnut"} THEN Num(PieGroupLimit)
    ELSE Null

\* preparedData of ManualExplorer for a config, as the set of the values it
\* can take; Null for null.
PreparedData(data, columns, cfg) ==
    LET xCol == FindColumn(columns, cfg.xAxis)
        yCol == FindColumn(columns, cfg.yAxis)
        validation == validateChart(cfg.type, xCol, yCol)
    IN IF ~IsPresent(xCol) \/ ~IsPresent(yCol) THEN {Null}
       ELSE IF ~validation.valid /\ validation.severity = "BLOCK" THEN {Null}
       ELSE IF cfg.type = "scatter"
       THEN (IF Len(data) > ScatterLimit THEN sampleData(data, ScatterSampleSize)
             ELSE {data})
       ELSE IF cfg.aggregation # "" /\ xCol.type # "number"
       THEN aggregateData(data, cfg.xAxis, cfg.yAxis, cfg.aggregation,
                          AggregationLimit(cfg, xCol))
       ELSE {data}

\* The props of a ChartRenderer element.
ChartProps(data, forcedConfig) == [data |-> data, forcedConfig |-> forcedConfig]

\* The ChartRenderer elements ManualExplorer can render for a config: one when
\* both axes resolve and the validation is valid or a warning, none otherwise.
ExplorerCharts(data, columns, cfg) ==
    LET xCol == FindColumn(columns, cfg.xAxis)
        yCol == FindColumn(columns, cfg.yAxis)
        validation == validateChart(cfg.type, xCol, yCol)
    IN IF IsPresent(xCol) /\ IsPresent(yCol)
          /\ (validation.valid \/ validation.severity = "WARN")
       THEN {<<ChartProps(prepared, cfg)>> : prepared \in PreparedData(data, columns, cfg)}
       ELSE {<<>>}

\* The ChartRenderer elements of RecommendedCharts: one per recommendation,
\* each over the data of the dashboard.
RecommendedChartElements(data, recommendations) ==
    [i \in 1..Len(recommendations) |-> ChartProps(data, recommendations[i])]

\* chartData.datasets[0].data of ChartRenderer: points for a scatter or
\* bubble chart, the y values for the others.
ChartSeries(props) ==
    IF props.forcedConfig.type \in {"scatter", "bubble"}
    THEN [r \in 1..Len(props.data) |->
            [x |-> RowGet(props.data[r], props.forcedConfig.xAxis),
             y |-> RowGet(props.data[r], props.forcedConfig.yAxis)]]
    ELSE [r \in 1..Len(props.data) |-> RowGet(props.data[r], props.forcedConfig.yAxis)]

\* The dashboard's tabs over an analysed dataset; call holds the active tab
\* and the ChartRenderer elements on screen.
Tabs == {"columns", "smart", "explore"}

Rendered(tab, charts) == [fn |-> "render", tab |-> tab, charts |-> charts]

\* A tab button: RecommendedCharts or a fresh ManualExplorer is mounted.
ShowTab ==
    /\ \E tab \in Tabs \ {call.tab} :
          call' = Rendered(tab,
                     IF tab = "smart"
                     THEN RecommendedChartElements(analysis.data,
                              getRecommendations(analysis.data, analysis.columns))
                     ELSE <<>>)
    /\ config' = InitConfig
    /\ hint' = NoHint
    /\ UNCHANGED <<rawData, analysis, dashboard, firestore, upload>>

\* An update of ManualExplorer's state and the render that follows it.
ExploreStep(next) ==
    /\ call.tab = "explore"
    /\ config' = next.config
    /\ hint' = next.hint
    /\ \E charts \in ExplorerCharts(analysis.data, analysis.columns, next.config) :
          call' = Rendered("explore", charts)
    /\ UNCHANGED <<rawData, analysis, dashboard, firestore, upload>>

ExploreXAxis ==
    \E value \in XOptions \ {config.xAxis} :
       ExploreStep(AxisChange(config, analysis.columns, "x", value))

ExploreYAxis ==
    \E value \in YOptions \ {config.yAxis} :
       ExploreStep(AxisChange(config, analysis.columns, "y", value))

ExploreType ==
    \E type \in ButtonTypes :
       /\ ~IsButtonBlocked(type)
       /\ ExploreStep([config |-> [config EXCEPT !.type = type], hint |-> hint])

ExploreAggregation ==
    /\ config.type # "scatter"
    /\ IsPresent(XCol)
    /\ XCol.type # "number"
    /\ \E a \in Aggregations \ {config.aggregation} :
          ExploreStep([config |-> [config EXCEPT !.aggregation = a], hint |-> hint])

\* Datasets on screen: two number columns over ScatterLimit rows and one more,
\* and a few rows with a date and a text column of many distinct values.
ViewKeys == << <<"a">>, <<"b">>, <<"c">>, <<"d">> >>
LargeViewRows == {ScatterLimit, ScatterLimit + 1}
ViewShapes ==
    { <<Shape("num", 2, 1), Shape("num", 3, 0), s3, s4>> :
        s3 \in {Shape("date", BarGroupLimit, 0), Shape("date", BarGroupLimit + 1, 0)},
        s4 \in {Shape("str", BarGroupLimit, 0), Shape("str", BarGroupLimit + 1, 0)} }

InitView ==
    /\ \/ \E n \in LargeViewRows :
             rawData = Array(Dataset(n, <<ViewKeys[1], ViewKeys[2]>>,
                                     <<Shape("spike", 0, 0), Shape("spike", 0, 0)>>))
       \/ \E shapes \in ViewShapes :
             rawData = Array(Dataset(MaxRows, ViewKeys, shapes))
    /\ analysis = processData(rawData)
    /\ call = Rendered("columns", <<>>)
    /\ config = InitConfig
    /\ hint = NoHint
    /\ dashboard = NotMounted
    /\ firestore = NoFirestore
    /\ upload = NotMounted

NextView == ShowTab \/ ExploreXAxis \/ ExploreYAxis \/ ExploreType \/ ExploreAggregation

SpecView == InitView /\ [][NextView]_vars

\* ------------------------------------------------------------- FileUpload
\* A selected file, by its extension and by how its handling will end:
\* "rows" parses to rows, "empty" to none, "unreadable" fails to be read,
\* "corrupt" makes the parser throw.
File(ext, ending) == [ext |-> ext, ending |-> ending]
Files ==
    {File("csv", e) : e \in {"rows", "empty", "unreadable"}}
    \cup {File(x, e) : x \in {"xlsx", "xls"}, e \in {"rows", "corrupt", "unreadable"}}
    \cup {File("pdf", e) : e \in {"rows", "empty", "corrupt"}}
    \cup {File("txt", "rows")}
\* e.target.files[0] of a dialog that was closed.
NoFile == File("", "none")

\* The rows a file parses to.
FileRows(file) ==
    IF file.ending = "rows"
    THEN Dataset(2, << <<"a">>, <<"b">> >>, <<Shape("num", 2, 0), Shape("str", 2, 0)>>)
    ELSE <<>>

\* At most this many files are being handled at a time.
MaxInFlight == 2

\* The component as mounted: nothing loading, no file in flight; handed is
\* what onUpload was last called with.
InitUpload ==
    /\ rawData = Null
    /\ analysis = NoAnalysis
    /\ call = NoCall
    /\ config = InitConfig
    /\ hint = NoHint
    /\ dashboard = NotMounted
    /\ firestore = NoFirestore
    /\ upload = [mounted |-> TRUE, loading |-> FALSE, inFlight |-> <<>>, handed |-> Null]

Without(s, i) == SubSeq(s, 1, i - 1) \o SubSeq(s, i + 1, Len(s))

\* The end of the handling of the file at position i: the flag and what
\* onUpload gets.
Finish(i, loading, handed) ==
    /\ upload' = [upload EXCEPT !.inFlight = Without(@, i), !.loading = loading,
                                !.handed = handed]
    /\ UNCHANGED <<rawData, analysis, call, config, hint, dashboard, firestore>>

\* handleFile(file) up to its first asynchronous call.
SelectFile ==
    /\ upload.mounted
    /\ \E file \in Files \cup {NoFile} :
          IF file = NoFile THEN upload' = upload
          ELSE IF file.ext \in {"csv", "xlsx", "xls", "pdf"}
          THEN /\ Len(upload.inFlight) < MaxInFlight
               /\ upload' = [upload EXCEPT !.loading = TRUE,
                                           !.inFlight = Append(@, file)]
          ELSE upload' = [upload EXCEPT !.loading = FALSE]
    /\ UNCHANGED <<rawData, analysis, call, config, hint, dashboard, firestore>>

\* Papa.parse calls complete.
CsvComplete ==
    \E i \in 1..Len(upload.inFlight) :
       /\ upload.inFlight[i].ext = "csv"
       /\ upload.inFlight[i].ending \in {"rows", "empty"}
       /\ Finish(i, FALSE, Array(FileRows(upload.inFlight[i])))

\* Papa.parse calls error.
CsvError ==
    \E i \in 1..Len(upload.inFlight) :
       /\ upload.inFlight[i].ext = "csv"
       /\ upload.inFlight[i].ending = "unreadable"
       /\ Finish(i, FALSE, upload.handed)

\* reader.onload: the workbook is read, or XLSX.read throws.
ExcelLoad ==
    \E i \in 1..Len(upload.inFlight) :
       /\ upload.inFlight[i].ext \in {"xlsx", "xls"}
       /\ upload.inFlight[i].ending \in {"rows", "corrupt"}
       /\ Finish(i, FALSE, IF upload.inFlight[i].ending = "rows"
                           THEN Array(FileRows(upload.inFlight[i]))
                           ELSE upload.handed)

\* Variant of the read failure with an onerror handler that ends the loading.
ExcelReadFailsHandled(i) == Finish(i, FALSE, upload.handed)

\* The FileReader fails: it fires error, for which no handler is set.
ExcelReadFails(i) == Finish(i, upload.loading, upload.handed)

ExcelError ==
    \E i \in 1..Len(upload.inFlight) :
       /\ upload.inFlight[i].ext \in {"xlsx", "xls"}
       /\ upload.inFlight[i].ending = "unreadable"
       /\ ExcelReadFails(i)

\* extractTableFromPDF settles: rows, no rows, or a rejection.
PdfSettled ==
    \E i \in 1..Len(upload.inFlight) :
       /\ upload.inFlight[i].ext = "pdf"
       /\ Finish(i, FALSE, IF upload.inFlight[i].ending = "rows"
                           THEN Array(FileRows(upload.inFlight[i]))
                           ELSE upload.handed)

NextUpload == SelectFile \/ CsvComplete \/ CsvError \/ ExcelLoad \/ ExcelError \/ PdfSettled

SpecUpload == InitUpload /\ [][NextUpload]_vars

\* Every callback and promise of a file in flight is eventually run.
SpecUploadFair ==
    /\ SpecUpload
    /\ WF_vars(CsvComplete) /\ WF_vars(CsvError) /\ WF_vars(ExcelLoad)
    /\ WF_vars(ExcelError) /\ WF_vars(PdfSettled)

\* --------------------------------------------------------------- Dashboard
\* data.slice(0, 1000) of both addDoc calls.
SaveRowLimit == 1000

\* What the collection gives back for a cell: a Date comes back as a
\* Timestamp object, numbers, strings and null as they went in.
StoredCell(val) == IF val.k = "date" THEN [k |-> "timestamp", v |-> val.v] ELSE val
StoredRows(rows) ==
    [r \in 1..Len(rows) |->
       [c \in 1..Len(rows[r]) |-> [key |-> rows[r][c].key,
                                   val |-> StoredCell(rows[r][c].val)]]]

\* A document of the collection, by its type and its data.
Doc(type, rows) == [type |-> type, data |-> StoredRows(Take(rows, SaveRowLimit))]

\* The useState defaults; source "null" stands for null.
InitDashboardState ==
    [mounted |-> TRUE, data |-> <<>>, analysis |-> NoAnalysis, recommendations |-> <<>>,
     isSaving |-> FALSE, view |-> "dashboard", source |-> "null", activeTab |-> "columns"]

Views == {"dashboard", "history", "saved", "settings"}

\* The arrays the upload component can hand over: no rows, number and text
\* columns, and a date column.
UploadKeys == << <<"a">>, <<"b">> >>
Uploads ==
    {<<>>,
     Dataset(2, UploadKeys, <<Shape("num", 2, 0), Shape("str", 2, 0)>>),
     Dataset(3, UploadKeys, <<Shape("series", 1, 0), Shape("date", 3, 0)>>)}

\* Variant that sets the data and leaves analysis and recommendations.
AnalysedDataOnly(state, processed) == [state EXCEPT !.data = processed.data]

\* setData, setAnalysis and setRecommendations from a processed dataset.
Analysed(state, processed) ==
    [state EXCEPT !.data = processed.data, !.analysis = processed,
                  !.recommendations = getRecommendations(processed.data,
                                                         processed.columns)]

\* The four resets of handleBack and goHome.
Cleared(state) ==
    [state EXCEPT !.data = <<>>, !.analysis = NoAnalysis, !.recommendations = <<>>,
                  !.source = "null"]

\* handleUpload(rawData), called by the upload component when a file selected
\* on the landing view has been parsed, which can be at any later time; call
\* keeps the argument of the last call.
HandleUpload ==
    /\ \E rows \in Uploads :
          LET processed == processData(Array(rows))
          IN /\ call' = [fn |-> "handleUpload", rawData |-> Array(rows)]
             /\ IF processed = NoAnalysis
                THEN UNCHANGED <<dashboard, firestore>>
                ELSE /\ dashboard' = [Analysed(dashboard, processed)
                                      EXCEPT !.source = "null"]
                     /\ firestore' = [firestore EXCEPT !.pending =
                                         @ \cup {Doc("auto", processed.data)}]
    /\ UNCHANGED <<rawData, analysis, config, hint, upload>>

\* The Save button: shown on the dashboard view over data that is not marked
\* saved, disabled while a save is in flight.
SaveDashboard ==
    /\ dashboard.view = "dashboard"
    /\ Len(dashboard.data) > 0
    /\ dashboard.source # "saved"
    /\ ~dashboard.isSaving
    /\ dashboard' = [dashboard EXCEPT !.isSaving = TRUE]
    /\ firestore' = [firestore EXCEPT !.pending = @ \cup {Doc("manual", dashboard.data)}]
    /\ UNCHANGED <<rawData, analysis, call, config, hint, upload>>

\* Variant of the end of a manual save that marks the data saved only when
\* the data on screen is still the data that was saved.
SaveSettledIfSame(state, doc, ok) ==
    [state EXCEPT !.isSaving = FALSE,
                  !.source = IF ok /\ Doc("manual", state.data) = doc
                             THEN "saved" ELSE @]

\* The rest of saveDashboard after the await: setSource('saved') when addDoc
\* resolved, setIsSaving(false) in both cases.
SaveSettled(state, doc, ok) ==
    [state EXCEPT !.isSaving = FALSE, !.source = IF ok THEN "saved" ELSE @]

\* An addDoc call settles: the document is written, or the call rejects.
AddDocSettles ==
    /\ \E doc \in firestore.pending, ok \in BOOLEAN :
          /\ firestore' = [docs |-> IF ok THEN firestore.docs \cup {doc}
                                    ELSE firestore.docs,
                           pending |-> firestore.pending \ {doc}]
          /\ dashboard' = IF doc.type = "manual" THEN SaveSettled(dashboard, doc, ok)
                          ELSE dashboard
    /\ UNCHANGED <<rawData, analysis, call, config, hint, upload>>

\* handleLoadFromStorage(savedData, fromSource): a card of the history or of
\* the saved list is clicked.
LoadFromStorage ==
    /\ \E doc \in firestore.docs :
          /\ \/ dashboard.view = "history" /\ doc.type = "auto"
             \/ dashboard.view = "saved" /\ doc.type = "manual"
          /\ LET processed == processData(Array(doc.data))
                 fromSource == IF doc.type = "auto" THEN "history" ELSE "saved"
             IN dashboard' =
                   [(IF processed # NoAnalysis THEN Analysed(dashboard, processed)
                     ELSE [dashboard EXCEPT !.data = doc.data])
                    EXCEPT !.source = fromSource, !.view = "dashboard"]
    /\ UNCHANGED <<rawData, analysis, call, config, hint, firestore, upload>>

\* handleBack: the 'Close & Clear' button over held data.
HandleBack ==
    /\ dashboard.view = "dashboard"
    /\ Len(dashboard.data) > 0
    /\ dashboard' = [Cleared(dashboard) EXCEPT !.view =
                        IF dashboard.source = "history" THEN "history"
                        ELSE IF dashboard.source = "saved" THEN "saved"
                        ELSE "dashboard"]
    /\ UNCHANGED <<rawData, analysis, call, config, hint, firestore, upload>>

\* goHome: the logo; over held data the user confirms or cancels.
GoHome ==
    /\ \E confirmed \in BOOLEAN :
          IF Len(dashboard.data) > 0 /\ ~confirmed THEN dashboard' = dashboard
          ELSE dashboard' = [Cleared(dashboard) EXCEPT !.view = "dashboard",
                                                       !.activeTab = "columns"]
    /\ UNCHANGED <<rawData, analysis, call, config, hint, firestore, upload>>

\* setView: the profile menu and the Back buttons of the other views.
SetView ==
    /\ \E view \in Views \ {dashboard.view} :
          dashboard' = [dashboard EXCEPT !.view = view]
    /\ UNCHANGED <<rawData, analysis, call, config, hint, firestore, upload>>

\* setActiveTab: the tab buttons over analysed data.
SetActiveTab ==
    /\ dashboard.view = "dashboard"
    /\ Len(dashboard.data) > 0
    /\ dashboard.analysis # NoAnalysis
    /\ \E tab \in Tabs \ {dashboard.activeTab} :
          dashboard' = [dashboard EXCEPT !.activeTab = tab]
    /\ UNCHANGED <<rawData, analysis, call, config, hint, firestore, upload>>

InitDashboard ==
    /\ rawData = Null
    /\ analysis = NoAnalysis
    /\ call = NoCall
    /\ config = InitConfig
    /\ hint = NoHint
    /\ dashboard = InitDashboardState
    /\ firestore = NoFirestore
    /\ upload = NotMounted

NextDashboard ==
    \/ HandleUpload \/ SaveDashboard \/ AddDocSettles \/ LoadFromStorage
    \/ HandleBack \/ GoHome \/ SetView \/ SetActiveTab

SpecDashboard == InitDashboard /\ [][NextDashboard]_vars

\* ------------------------------------------------ claims on ManualExplorer
\* A step in which an axis select changed.
AxisMoved == config'.xAxis # config.xAxis \/ config'.yAxis # config.yAxis

\* C7: on an axis change that leaves both axes selected, the type becomes
\* the smart suggestion's (and its non-null aggregation is applied) exactly
\* when there is a suggestion and the previous type fails validation on the
\* new axes or is answered AUTO_FIX; otherwise type and aggregation stay.
C7_SmartSwitchExactlyWhen ==
    [][AxisMoved =>
        LET newXCol == FindColumn(analysis.columns, config'.xAxis)
            newYCol == FindColumn(analysis.columns, config'.yAxis)
            smart == suggestSmartConfig(newXCol, newYCol)
            previous == validateChart(config.type, newXCol, newYCol)
            due == /\ IsPresent(newXCol) /\ IsPresent(newYCol)
                   /\ smart # NoSuggestion
                   /\ (previous.valid = FALSE
                       \/ ("severity" \in DOMAIN previous
                           /\ previous.severity = "AUTO_FIX"))
        IN IF due
           THEN /\ config'.type = smart.type
                /\ config'.aggregation = IF smart.aggregation # "null"
                                          THEN smart.aggregation
                                          ELSE config.aggregation
           ELSE /\ config'.type = config.type
                /\ config'.aggregation = config.aggregation]_vars

\* The view after a switch to line that overrode a chosen aggregation.
C7_Witness ==
    /\ config.type = "line"
    /\ config.aggregation = "mean"
    /\ XCol.type = "date" /\ YCol.type = "number"
    /\ hint = "Auto-switched to Line for time-series trend."

\* C8: every axis change that switches the chart type sets a non-empty hint
\* in the same update.
C8_SwitchEmitsHint ==
    [][(AxisMoved /\ config'.type # config.type) => hint' # NoHint]_vars

\* ------------------------------------------ aggregateData, as a function
RegionKey == <<"r", "e", "g", "i", "o", "n">>
SalesKey == <<"s", "a", "l", "e", "s">>
MissingKey == <<"x">>
AggregateKeys == {RegionKey, SalesKey, MissingKey}
AggregateRows == 0..MaxAggRows

\* Group columns: names, names with gaps, a number beside the string of its
\* digits, dates, and whole numbers not in rising order.
RegionShapes ==
    {Shape("str", 2, 0), Shape("str", 3, 0), Shape("strgap", 2, 0),
     Shape("mixed", 3, 0), Shape("dateobj", 2, 1), Shape("numdesc", 3, -1)}

\* Metric columns: numbers, numbers with a text among them, blanks, dates.
SalesShapes ==
    {Shape("multiples", 3, 10), Shape("num", 2, 1), Shape("numdesc", 4, 0),
     Shape("numtext", 3, 5), Shape("blank", 1, 0), Shape("dateobj", 3, 1)}

\* The limit argument: absent (null), or a number.
Limits == {Null, Num(0), Num(1), Num(2)}

InitAggregate ==
    /\ \E n \in AggregateRows, region \in RegionShapes, sales \in SalesShapes :
          rawData = Array(Dataset(n, <<RegionKey, SalesKey>>, <<region, sales>>))
    /\ analysis = NoAnalysis
    /\ call = NoCall
    /\ config = InitConfig
    /\ hint = NoHint
    /\ dashboard = NotMounted
    /\ firestore = NoFirestore
    /\ upload = NotMounted

\* aggregateData(data, groupByCol, metricCol, method, limit); groups is what
\* the sort left, before the limit.
CallAggregateData ==
    /\ call = NoCall
    /\ \E groupByCol \in AggregateKeys, metricCol \in AggregateKeys,
          method \in Aggregations, limit \in Limits :
          \E groups \in AggregatedGroups(rawData.v, groupByCol, metricCol, method) :
             call' = [fn |-> "aggregateData", groupByCol |-> groupByCol,
                      metricCol |-> metricCol, method |-> method, limit |-> limit,
                      groups |-> groups, result |-> ApplyLimit(groups, limit)]
    /\ UNCHANGED <<rawData, analysis, config, hint, dashboard, firestore, upload>>

NextAggregate == CallAggregateData

SpecAggregate == InitAggregate /\ [][NextAggregate]_vars

\* ------------------------------------------- claims on getRecommendations
IsRecommendCall == call.fn = "getRecommendations"
\* The recommendations array of the call, as pushed.
RecCandidates == call.candidates
Titles(recs) == {recs[i].title : i \in 1..Len(recs)}

\* C9: the result has at most 4 entries, in non-increasing score order, with
\* pairwise distinct titles, and no candidate left out under a title that is
\* not in the result scores strictly more than a returned entry.
C9_TopFourByScore ==
    IsRecommendCall =>
        LET result == call.result
            cands == RecCandidates
        IN /\ Len(result) <= RecTopN
           /\ Len(result) = Min2(RecTopN, Cardinality(Titles(cands)))
           /\ \A i \in 1..Len(result) : \E c \in 1..Len(cands) : cands[c] = result[i]
           /\ \A i \in 1..(Len(result) - 1) :
                 ScoreLeq(result[i + 1].score, result[i].score)
           /\ \A i, j \in 1..Len(result) : i # j => result[i].title # result[j].title
           /\ \A c \in 1..Len(cands) :
                 cands[c].title \notin Titles(result) =>
                    \A i \in 1..Len(result) :
                       ScoreLeq(cands[c].score, result[i].score)
           /\ \A i \in 1..Len(result) : \A c \in 1..Len(cands) :
                 cands[c].title = result[i].title =>
                    ScoreLeq(cands[c].score, result[i].score)

\* More than 4 titles were proposed, two candidates shared a title, and the
\* candidates were not generated in score order.
C9_Witness ==
    /\ IsRecommendCall
    /\ Len(call.result) = RecTopN
    /\ Cardinality(Titles(RecCandidates)) > RecTopN
    /\ Cardinality(Titles(RecCandidates)) < Len(RecCandidates)
    /\ \E c \in 1..(Len(RecCandidates) - 1) :
          ScoreLess(RecCandidates[c].score, RecCandidates[c + 1].score)

\* The column of the analysis a recommendation names.
RecColumn(key) == FindColumn(analysis.columns, key)

NumericColumns == ColumnsOfType(analysis.columns, {"number"})
DateColumns == ColumnsOfType(analysis.columns, {"date"})

\* The positions in the returned list of the line recommendations.
ReturnedLines == {i \in 1..Len(call.result) : call.result[i].type = "line"}

\* C11: when the columns hold a date column and one numeric column, the
\* returned list has exactly one line recommendation; its score is 90, its
\* x axis the first date column and its y axis the numeric column.
C11_OneLinePerNumericColumn ==
    (IsRecommendCall /\ Len(DateColumns) >= 1 /\ Len(NumericColumns) = 1) =>
        /\ Cardinality(ReturnedLines) = 1
        /\ \A i \in ReturnedLines :
              /\ call.result[i].score = FixedScore(90)
              /\ call.result[i].xAxis = DateColumns[1].key
              /\ call.result[i].yAxis = NumericColumns[1].key

\* One numeric column, two date columns, and more candidates than the list
\* returns.
C11_Witness ==
    /\ IsRecommendCall
    /\ Len(NumericColumns) = 1
    /\ Len(DateColumns) >= 2
    /\ Len(RecCandidates) > RecTopN
    /\ Cardinality(ReturnedLines) = 1

\* The candidates that are the scatter of the numeric columns i and j.
ScatterCandidates(i, j) ==
    {c \in 1..Len(RecCandidates) :
        /\ RecCandidates[c].type = "scatter"
        /\ RecCandidates[c].xAxis = NumericColumns[i].key
        /\ RecCandidates[c].yAxis = NumericColumns[j].key}

\* The correlation of the numeric columns i and j over the typed rows.
PairCorrelation(i, j) ==
    calculateCorrelation(ColumnValues(analysis.data, NumericColumns[i].key),
                         ColumnValues(analysis.data, NumericColumns[j].key))

\* r = 0.85
IsEightyFiveHundredths(r) ==
    r.numerator > 0 /\ 400 * r.numerator * r.numerator = 289 * r.xDenom * r.yDenom

\* C12: every pair of numeric columns has a scatter candidate exactly when
\* |r| >= 0.3; its score is 70 + 30 * |r|, its description says Strong
\* exactly when |r| > 0.7 and Moderate otherwise, positive exactly when
\* r > 0 and negative otherwise; and with exactly two numeric columns of
\* r = 0.85 the returned list holds that scatter with score 95.5.
C12_ScatterForCorrelatedPairs ==
    IsRecommendCall =>
        /\ \A i, j \in 1..Len(NumericColumns) :
              i < j =>
                LET r == PairCorrelation(i, j)
                IN /\ (ScatterCandidates(i, j) # {}) <=> AbsAtLeast(r, 3, 10)
                   /\ Cardinality(ScatterCandidates(i, j)) <= 1
                   /\ \A c \in ScatterCandidates(i, j) :
                         LET rec == RecCandidates[c]
                         IN /\ rec.score.base = 70
                            /\ rec.score.coef = 30
                            /\ rec.score.r = r
                            /\ (rec.description.strength = "Strong")
                                  <=> AbsGreater(r, 7, 10)
                            /\ (rec.description.strength = "Moderate")
                                  <=> ~AbsGreater(r, 7, 10)
                            /\ (rec.description.direction = "positive")
                                  <=> r.numerator > 0
                            /\ (rec.description.direction = "negative")
                                  <=> ~(r.numerator > 0)
        /\ (Len(NumericColumns) = 2 /\ IsEightyFiveHundredths(PairCorrelation(1, 2))) =>
              \E k \in 1..Len(call.result) :
                 /\ call.result[k].type = "scatter"
                 /\ call.result[k].xAxis = NumericColumns[1].key
                 /\ call.result[k].yAxis = NumericColumns[2].key
                 /\ ScoreEqual(call.result[k].score, RationalScore(191, 2))

\* Exactly two numeric columns of r = 0.85 among more candidates than the
\* list returns, the scatter returned.
C12_Witness ==
    /\ IsRecommendCall
    /\ Len(NumericColumns) = 2
    /\ IsEightyFiveHundredths(PairCorrelation(1, 2))
    /\ Len(RecCandidates) > RecTopN
    /\ \E k \in 1..Len(call.result) : call.result[k].type = "scatter"

\* ------------------------------------------------- claims on processData
IsProcessCall == call.fn = "processData"

C13_WitnessAbsent == IsProcessCall /\ rawData = Undefined /\ analysis.isNull

\* A single row whose cells are all blank still gives a result.
C13_WitnessBlankRow ==
    /\ IsProcessCall
    /\ ~IsNullish(rawData)
    /\ Len(rawData.v) = 1
    /\ \A i \in 1..Len(rawData.v[1]) : IsBlank(rawData.v[1][i].val)
    /\ ~analysis.isNull

\* The rows given to processData, when it was given rows.
InputRows == rawData.v

\* The keys of the columns of the analysis, in order.
ColumnKeys == [c \in 1..Len(analysis.columns) |-> analysis.columns[c].key]

\* The typed cell agrees with the raw cell it was made from.
IsTypedFrom(typed, raw, type) ==
    /\ typed # Undefined
    /\ IsBlank(raw) => typed = Null
    /\ type = "number" => (typed = Null \/ typed.k = "num")
    /\ (type = "number" /\ raw.k = "num") => typed = raw
    /\ type = "date" => (typed = Null \/ typed.k = "date")
    /\ (type \in {"category", "text"} /\ ~IsBlank(raw)) => typed = raw

\* C14: for a non-empty input the result counts the input rows, its columns
\* are the keys of the first row, and data has for every input row, in
\* order, a row with exactly one typed value (possibly null) for every
\* column key, whatever keys the later rows have.
C14_ResultShape ==
    (IsProcessCall /\ ~analysis.isNull) =>
        /\ analysis.rowCount = Len(InputRows)
        /\ Len(analysis.data) = Len(InputRows)
        /\ ColumnKeys = RowKeys(InputRows[1])
        /\ \A r \in 1..Len(analysis.data) :
              /\ RowKeys(analysis.data[r]) = ColumnKeys
              /\ \A c \in 1..Len(analysis.columns) :
                    IsTypedFrom(RowGet(analysis.data[r], ColumnKeys[c]),
                                RowGet(InputRows[r], ColumnKeys[c]),
                                analysis.columns[c].type)

\* An input with a row that lacks a key of the first row, a row that has a
\* key the first row lacks, and a column typed as number.
C14_Witness ==
    /\ IsProcessCall
    /\ ~analysis.isNull
    /\ \E r \in 1..Len(InputRows) :
          \E c \in 1..Len(ColumnKeys) : ColumnKeys[c] \notin Range(RowKeys(InputRows[r]))
    /\ \E r \in 1..Len(InputRows) :
          Range(RowKeys(InputRows[r])) \ Range(ColumnKeys) # {}
    /\ \E c \in 1..Len(analysis.columns) : analysis.columns[c].type = "number"

\* -------------------------------------------- claims on analyzeColumnType
IsInferCall == call.fn = "analyzeColumnType"

\* The cells of the called column in the first 500 rows that are not empty.
FirstValid ==
    LET rows == Take(InputRows, SampleSize)
    IN SelectSeq([i \in 1..Len(rows) |-> RowGet(rows[i], call.key)],
                 LAMBDA v : v \notin {Null, Undefined, EmptyStr})

\* The type the rules give, by first match.
RuleType(valid) ==
    LET validCount == Len(valid)
        numeric == Len(SelectSeq(valid, IsNumeric))
        dates == Len(SelectSeq(valid, IsDate))
        distinct == Cardinality(Range(valid))
    IN CASE validCount = 0 -> "text"
         [] validCount > 0 /\ 5 * numeric > 4 * validCount -> "number"
         [] validCount > 0 /\ 5 * numeric <= 4 * validCount
               /\ 5 * dates > 4 * validCount -> "date"
         [] validCount > 0 /\ 5 * numeric <= 4 * validCount
               /\ 5 * dates <= 4 * validCount
               /\ (distinct <= 20 \/ (5 * distinct < validCount /\ distinct < 50))
               -> "category"
         [] OTHER -> "text"

\* C15: the type is the one the rules give for the non-empty cells of the
\* first 500 rows; the rows after them do not change it.
C15_TypeFromFirst500 ==
    IsInferCall =>
        /\ call.result.type = RuleType(FirstValid)
        /\ call.result.type = analyzeColumnType(Take(InputRows, SampleSize), call.key).type

\* A column of more than 500 rows typed number, whose numeric cells are not
\* more than 0.8 of all its cells.
C15_Witness ==
    /\ IsInferCall
    /\ Len(InputRows) > SampleSize
    /\ call.result.type = "number"
    /\ LET all == SampledValidAllRows(InputRows, call.key)
       IN 5 * Len(SelectSeq(all, IsNumeric)) <= 4 * Len(all)

\* --------------------------------------------------- claims on the stats
\* The non-null cells of column c of the analysis, in row order.
ValidCells(c) ==
    SelectSeq(ColumnValues(analysis.data, analysis.columns[c].key),
              LAMBDA v : v \notin {Null, Undefined})

\* The k-th smallest of the numbers xs.
OrderStatistic(xs, k) ==
    CHOOSE v \in Range(xs) :
        /\ Cardinality({i \in 1..Len(xs) : xs[i] < v}) < k
        /\ k <= Cardinality({i \in 1..Len(xs) : xs[i] <= v})

\* The statistics st are those of the numbers xs.
IsNumberStatsOf(st, xs) ==
    LET n == Len(xs)
        total == SumSeq(xs)
        squares == SumSeq([i \in 1..n |-> (n * xs[i] - total) * (n * xs[i] - total)])
    IN /\ st.min.v \in Range(xs) /\ \A i \in 1..n : st.min.v <= xs[i]
       /\ st.max.v \in Range(xs) /\ \A i \in 1..n : st.max.v >= xs[i]
       /\ st.median.den > 0 /\ st.variance.den > 0 /\ st.mean.den > 0
       /\ FracLeq(Frac(st.min.v, 1), st.median)
       /\ FracLeq(st.median, Frac(st.max.v, 1))
       /\ st.variance.num >= 0
       /\ st.mean.num * n = total * st.mean.den
       /\ st.variance.num * n * n * n = squares * st.variance.den
       /\ IF n % 2 = 1
          THEN st.median.num = OrderStatistic(xs, (n + 1) \div 2) * st.median.den
          ELSE 2 * st.median.num =
                 (OrderStatistic(xs, n \div 2) + OrderStatistic(xs, (n \div 2) + 1))
                 * st.median.den

\* C16: for every number column with a non-null cell, min <= median <= max
\* and variance >= 0, the mean is the sum over n, the variance the mean
\* squared deviation over n, and the median of an even number of cells the
\* average of the two middle ones.
C16_NumberStats ==
    (IsProcessCall /\ ~analysis.isNull) =>
        \A c \in 1..Len(analysis.columns) :
            (analysis.columns[c].type = "number" /\ ValidCells(c) # <<>>) =>
                IsNumberStatsOf(analysis.columns[c].stats,
                                [i \in 1..Len(ValidCells(c)) |-> ValidCells(c)[i].v])

\* A number column with null cells, an even number of at least four
\* non-null cells that are not in order, a negative one among them, and a
\* median that is not a whole number.
C16_Witness ==
    /\ IsProcessCall
    /\ ~analysis.isNull
    /\ \E c \in 1..Len(analysis.columns) :
          /\ analysis.columns[c].type = "number"
          /\ Len(ValidCells(c)) >= 4
          /\ Len(ValidCells(c)) % 2 = 0
          /\ Len(ValidCells(c)) < Len(analysis.data)
          /\ \E i \in 1..(Len(ValidCells(c)) - 1) : ValidCells(c)[i].v > ValidCells(c)[i + 1].v
          /\ \E i \in 1..Len(ValidCells(c)) : ValidCells(c)[i].v < 0
          /\ analysis.columns[c].stats.median.num % analysis.columns[c].stats.median.den # 0
          /\ analysis.columns[c].stats.variance.num > 0

\* C17: for every category or text column with a non-null cell, top has at
\* most 10 entries in non-increasing count order, its counts sum to at most
\* the number of non-null cells, and uniqueCount is the number of distinct
\* non-null cells.
C17_CategoryStats ==
    (IsProcessCall /\ ~analysis.isNull) =>
        \A c \in 1..Len(analysis.columns) :
            (analysis.columns[c].type \in {"category", "text"} /\ ValidCells(c) # <<>>) =>
                LET st == analysis.columns[c].stats
                IN /\ Len(st.top) <= 10
                   /\ \A i \in 1..(Len(st.top) - 1) : st.top[i].count >= st.top[i + 1].count
                   /\ SumSeq([i \in 1..Len(st.top) |-> st.top[i].count]) <= Len(ValidCells(c))
                   /\ st.uniqueCount = Cardinality(Range(ValidCells(c)))

\* ------------------------------------------- claims on calculateCorrelation
IsCorrelationCall == call.fn = "calculateCorrelation"

\* All the values of a sequence are the same number.
IsConstant(values) == \A i \in 1..Len(values) : values[i] = values[1]

\* C18: calculateCorrelation returns 0 whenever the two sequences differ in
\* length, either is empty, or either is constant.
C18_ZeroWhenDegenerate ==
    IsCorrelationCall =>
        (  \/ Len(call.xValues) # Len(call.yValues)
           \/ Len(call.xValues) = 0
           \/ Len(call.yValues) = 0
           \/ IsConstant(call.xValues)
           \/ IsConstant(call.yValues)
         => call.result = DoubleZero)

\* ------------------------------------------------ claims on aggregateData
IsAggregateCall == call.fn = "aggregateData"

\* The aggregated value of an entry of the result.
EntryValue(e) == CellFrac(RowGet(e, call.metricCol))

\* The distinct group keys of the rows whose key and metric are not null.
DistinctGroupKeys ==
    {RowGet(row, call.groupByCol) :
        row \in Range(GroupedRows(rawData.v, call.groupByCol, call.metricCol))}

\* C19: the output of aggregateData has at most one entry per distinct group
\* key of the rows whose key and metric are both non-null, has at most limit
\* entries under a positive limit, the kept entries being those of the
\* largest values, and no entry has a larger value than one before it.
C19_GroupedLimitedSorted ==
    IsAggregateCall =>
        /\ Len(call.result) <= Cardinality(DistinctGroupKeys)
        /\ call.groupByCol # call.metricCol =>
              \A i, j \in 1..Len(call.result) :
                 i # j => RowGet(call.result[i], call.groupByCol)
                          # RowGet(call.result[j], call.groupByCol)
        /\ (call.limit.k = "num" /\ call.limit.v > 0) =>
              /\ Len(call.result) <= call.limit.v
              /\ \A i \in 1..Len(call.result) :
                    \A j \in (Len(call.result) + 1)..Len(call.groups) :
                       ~FracLess(EntryValue(call.result[i]), EntryValue(call.groups[j]))
        /\ \A i, j \in 1..Len(call.result) :
              i < j => ~FracLess(EntryValue(call.result[i]), EntryValue(call.result[j]))

\* The row { region, sales }.
SalesRow(region, sales) ==
    << [key |-> RegionKey, val |-> region], [key |-> SalesKey, val |-> sales] >>

\* The regions "A" and "B".
RegionA == Str(0)
RegionB == Str(1)

\* [{region:"A",sales:10},{region:"B",sales:20},{region:"A",sales:30}]
SalesRows ==
    << SalesRow(RegionA, Num(10)), SalesRow(RegionB, Num(20)),
       SalesRow(RegionA, Num(30)) >>

\* aggregateData(rows, "region", "sales", "sum") on these rows has returned.
IsSalesSumCall ==
    /\ IsAggregateCall
    /\ rawData = Array(SalesRows)
    /\ call.groupByCol = RegionKey
    /\ call.metricCol = SalesKey
    /\ call.method = "sum"
    /\ call.limit = Null

\* C20, as stated: on these rows aggregateData(rows, "region", "sales", "sum")
\* returns [{region:"B",sales:20},{region:"A",sales:40}], in that order.
C20_SumByRegionAsStated ==
    IsSalesSumCall =>
        call.result = << SalesRow(RegionB, Num(20)), SalesRow(RegionA, Num(40)) >>

\* C20, amended: on these rows aggregateData(rows, "region", "sales", "sum")
\* returns [{region:"A",sales:40},{region:"B",sales:20}], the larger sum first.
C20_SumByRegionDescending ==
    IsSalesSumCall =>
        call.result = << SalesRow(RegionA, Num(40)), SalesRow(RegionB, Num(20)) >>

C20_Witness == IsSalesSumCall

\* --------------------------------------------------- claims on sampleData
IsSampleReturned == call.fn = "sampleData" /\ call.pc = "done"
IsSampleLoop == call.fn = "sampleData" /\ call.pc = "loop"

\* The indices are pairwise distinct positions of the rows.
AreDistinctIndices(indices, total) ==
    /\ \A k \in 1..Len(indices) : indices[k] \in 0..(total - 1)
    /\ \A j, k \in 1..Len(indices) : j # k => indices[j] # indices[k]

\* C21: sampleData(rows, limit) returns the rows unchanged when rows.length
\* <= limit; otherwise it returns exactly limit elements, the rows at
\* pairwise distinct indices, in the order the indices were drawn.
C21_SampleOrAll ==
    (IsSampleReturned /\ ~IsNullish(rawData)) =>
        IF Len(rawData.v) <= call.limit THEN call.result = rawData
        ELSE /\ Len(call.result.v) = call.limit
             /\ Len(call.indices) = call.limit
             /\ AreDistinctIndices(call.indices, Len(rawData.v))
             /\ \A k \in 1..call.limit :
                   call.result.v[k] = rawData.v[call.indices[k] + 1]

\* A sample of at least two rows, the later-drawn row first in the input.
C21_Witness ==
    /\ IsSampleReturned
    /\ ~IsNullish(rawData)
    /\ Len(rawData.v) > call.limit
    /\ call.limit >= 2
    /\ call.indices[1] > call.indices[2]

\* C30: the loop is entered only when limit < rows.length, and under fair
\* draws every loop ends, with exactly limit distinct indices in
\* 0..rows.length-1 in the set.
C30_LoopTerminates ==
    /\ [](IsSampleLoop => call.limit < Len(rawData.v))
    /\ [](IsSampleLoop =>
            <>(/\ IsSampleReturned
               /\ Len(call.indices) = call.limit
               /\ AreDistinctIndices(call.indices, Len(rawData.v))))

\* A loop that needed several draws has ended.
C30_Witness ==
    /\ IsSampleReturned
    /\ ~IsNullish(rawData)
    /\ Len(call.indices) = call.limit
    /\ call.limit >= 2

\* ------------------------------------------------- claims on the rendering
IsRender == call.fn = "render"

\* C22: every scatter chart handed to ChartRenderer over a dataset of more
\* than ScatterLimit rows, from the exploration view or from a
\* recommendation, has ScatterSampleSize rows of the dataset as its data, and
\* no scatter series has more than ScatterLimit points.
C22_ScatterSampled ==
    IsRender =>
       \A i \in 1..Len(call.charts) :
          LET props == call.charts[i] IN
          (props.forcedConfig.type = "scatter" /\ props.data # Null) =>
             /\ Len(analysis.data) > ScatterLimit =>
                   /\ Len(props.data) = ScatterSampleSize
                   /\ Range(props.data) \subseteq Range(analysis.data)
             /\ Len(ChartSeries(props)) <= ScatterLimit

\* C23: a bar chart of the exploration view whose x column has more than
\* BarGroupLimit distinct values is drawn from at most BarGroupLimit groups.
C23_BarTopTwenty ==
    (IsRender /\ call.tab = "explore") =>
       \A i \in 1..Len(call.charts) :
          LET props == call.charts[i] IN
          (props.forcedConfig.type = "bar"
             /\ DistinctCount(FindColumn(analysis.columns, props.forcedConfig.xAxis))
                   > BarGroupLimit) =>
             Len(props.data) <= BarGroupLimit

\* ------------------------------------- claims on the exploration view's state
BothAxesSelected == IsPresent(XCol) /\ IsPresent(YCol)

\* C24: after any sequence of axis selections, aggregation changes and clicks
\* on enabled chart type buttons, whenever both axes are selected the active
\* chart type is one validateChart answers valid:true for.
C24_ActiveTypeValid ==
    BothAxesSelected => validateChart(config.type, XCol, YCol).valid

\* A doughnut, which only a click selects, kept over a change of aggregation.
C24_Witness ==
    /\ BothAxesSelected
    /\ config.type = "doughnut"
    /\ config.aggregation = "median"
    /\ XCol.type \in {"category", "text"}

\* preparedData is not null: both axes resolve and the validation is no BLOCK.
IsPrepared ==
    /\ BothAxesSelected
    /\ LET validation == validateChart(config.type, XCol, YCol)
       IN ~(~validation.valid /\ validation.severity = "BLOCK")

\* statsText is the hint.
HintDisplayed == IsPrepared /\ hint # NoHint

\* C26: whenever an 'Auto-switched to Scatter' or 'Auto-switched to Line' hint
\* is displayed, the active chart type is the one the hint names, also after
\* chart type clicks and aggregation changes.
C26_HintNamesActiveType ==
    HintDisplayed =>
       /\ hint = "Auto-switched to Scatter because both axes are numeric."
             => config.type = "scatter"
       /\ hint = "Auto-switched to Line for time-series trend."
             => config.type = "line"

\* ------------------------------- claims on recommendations and the validator
\* C25: every chart configuration getRecommendations returns for the columns
\* of processData is answered valid:true by validateChart on its type and the
\* columns of its two axes.
C25_RecommendationsValidate ==
    IsRecommendCall =>
       \A i \in 1..Len(call.result) :
          LET rec == call.result[i]
          IN validateChart(rec.type, RecColumn(rec.xAxis), RecColumn(rec.yAxis)).valid

\* --------------------------------------------------- claims on FileUpload
\* C29: after every file selection the loading flag that was set to true
\* eventually returns to false, however the handling of the file ends.
C29_LoadingEnds == upload.loading ~> ~upload.loading

\* ---------------------------------------------------- claims on Dashboard
\* The analysis and the recommendations are the ones of the held data.
IsAnalysisOf(state) ==
    /\ state.analysis # NoAnalysis
    /\ state.analysis.data = state.data
    /\ state.analysis.rowCount = Len(state.data)
    /\ \A c \in 1..Len(state.analysis.columns) :
          LET col == state.analysis.columns[c]
          IN col.stats = calculateStats(ColumnValues(state.data, col.key), col.type)
    /\ state.recommendations = getRecommendations(state.data, state.analysis.columns)

\* A step of handleUpload on an argument processData rejects.
IsRejectedUpload ==
    /\ call' # call
    /\ call'.fn = "handleUpload"
    /\ processData(call'.rawData) = NoAnalysis

\* C27: whenever the dashboard holds data, its analysis is not null and
\* analysis and recommendations are the ones computed from that data; and an
\* upload that processData rejects leaves data, analysis, recommendations
\* and source as they were.
C27_HeldDataAnalysed ==
    /\ [](Len(dashboard.data) > 0 => IsAnalysisOf(dashboard))
    /\ [][IsRejectedUpload => dashboard' = dashboard]_vars

\* Data loaded from the saved list over which the upload component then
\* handed in an array without rows.
C27_Witness ==
    /\ Len(dashboard.data) > 0
    /\ dashboard.source = "saved"
    /\ call.fn = "handleUpload"
    /\ call.rawData = Array(<<>>)

\* The data on screen is the data of a document of the saved list.
HeldIsSaved ==
    \E doc \in firestore.docs :
       /\ doc.type = "manual"
       /\ \/ doc = Doc("manual", dashboard.data)
          \/ dashboard.data = processData(Array(doc.data)).data

\* C28: the source marker is 'saved' only when the data on screen was saved
\* with the Save button or loaded from the saved list, also when other
\* actions run while a save is in flight.
C28_SavedMarksSavedData == dashboard.source = "saved" => HeldIsSaved

=========================================================================
